---- MODULE Spec2Model ----
(***************************************************************************)
(* Clinic booking bot: the tabular store (local-file backend of            *)
(* excel_manager.py, remote-sheet backend of sheets_manager.py), the       *)
(* booking dialog, the "my appointments" listing with its cancel action,   *)
(* and the background reconciliation loop of bot.py.                       *)
(*                                                                         *)
(* Conventions.  Text values of the program are strings.  A calendar date  *)
(* is a string that ParseDate turns into a day number; a time is a string  *)
(* that ParseTime turns into an hour.  The clock `now` counts whole hours  *)
(* from 08:00 of day 0, so createdAt (the clock formatted as               *)
(* '%Y-%m-%d %H:%M:%S', whose text order is its time order) is the clock   *)
(* value itself.  Status texts are ASCII transliterations of the source's  *)
(* ("Novaya" = 'Новая', "Obnovlena" = 'Обновлена', "Otmenena" =            *)
(* 'Отменена', "otmenyon" = 'отменён').                                    *)
(***************************************************************************)
EXTENDS Integers, Sequences, FiniteSets, TLC

\* ---------------------------------------------------------------- bounds
MaxRows == 2        \* rows the appointments table may hold
MaxNow == 2         \* hours the clock may advance
MaxTicks == 2         \* passes of the reconciliation loop that are followed
MaxReviews == 1     \* rows the reviews table may hold
MaxDay == 55        \* days on which the date keyboard is opened
MaxTasks == 2       \* loop tasks that are counted

\* ------------------------------------------------------- catalog, inputs
Users == {101, 102}
Backends == {"excel", "sheets"}

DOCTORS == [Terapevt |-> <<"Ivanov">>]
Specializations == DOMAIN DOCTORS
SpecOf(doc) == CHOOSE s \in Specializations : \E i \in DOMAIN DOCTORS[s] : DOCTORS[s][i] = doc

AVAILABLE_TIMES == <<"09:00", "10:00">>
Times == {AVAILABLE_TIMES[i] : i \in DOMAIN AVAILABLE_TIMES}

\* Date texts: "D1" is day 1 (tomorrow), "D2" is day 2; "soon" is a cell an
\* administrator typed that strptime("%d.%m.%Y") rejects.
Dates == {"D1", "D2"}
BadDate == "soon"

NoValue == "<none>"
NoInstant == 0 - 1

\* str(user_id) and int(user_id_str)
UidStr(u) == ToString(u)
UidInt(s) == IF \E u \in Users : ToString(u) = s
             THEN CHOOSE u \in Users : ToString(u) = s
             ELSE 0

\* str(status).lower()
Lower(s) ==
    CASE s = "Novaya" -> "novaya"
      [] s = "Obnovlena" -> "obnovlena"
      [] s = "Otmenena" -> "otmenena"
      [] s = "Canceled" -> "canceled"
      [] s = "Cancel" -> "cancel"
      [] s = "Skryt" -> "skryt"
      [] s = "Novyj" -> "novyj"
      [] s = "HIDDEN" -> "hidden"
      [] s = "Deleted" -> "deleted"
      [] OTHER -> s

\* dt.strptime(date, "%d.%m.%Y"): the day number, or NoInstant when it raises
ParseDate(d) ==
    CASE d = "D1" -> 1
      [] d = "D2" -> 2
      [] OTHER -> NoInstant

\* h, m = time.split(":"): hours since 08:00
ParseTime(t) ==
    CASE t = "09:00" -> 1
      [] t = "10:00" -> 2
      [] OTHER -> NoInstant

HoursPerDay == 24
CancelWindow == 24

\* appt_date.replace(hour=h, minute=m), in hours since 08:00 of day 0
ApptInstant(date, time) ==
    IF ParseDate(date) = NoInstant \/ ParseTime(time) = NoInstant
    THEN NoInstant
    ELSE ParseDate(date) * HoursPerDay + ParseTime(time)

\* ------------------------------------------------------------------ rows
Row(date, time, name, phone, doctor, spec, status, uid, created) ==
    [date |-> date, time |-> time, name |-> name, phone |-> phone,
     doctor |-> doctor, specialization |-> spec, status |-> status,
     uid |-> uid, created_at |-> created]

NoRow == Row(NoValue, NoValue, NoValue, NoValue, NoValue, NoValue, NoValue, NoValue, 0)

SlotKey(r) == <<r.uid, r.date, r.time, r.doctor>>
DoctorSlot(r) == <<r.date, r.time, r.doctor>>
IdentityKey(r) == <<r.uid, r.date, r.time, r.doctor, r.created_at>>

Min(S) == CHOOSE x \in S : \A y \in S : x <= y

\* the rows of s at the indexes of I, in order
RECURSIVE PickIdx(_, _, _)
PickIdx(s, I, i) ==
    IF i > Len(s) THEN <<>>
    ELSE (IF i \in I THEN <<s[i]>> ELSE <<>>) \o PickIdx(s, I, i + 1)

Filter(s, I) == PickIdx(s, I, 1)

\* df.sort_values('Дата создания'): ascending; numpy's sort of a short
\* column is an insertion sort, so rows of equal createdAt keep their order
InsertAsc(s, r) ==
    LET later == {i \in DOMAIN s : s[i].created_at > r.created_at}
        p == IF later = {} THEN Len(s) + 1 ELSE Min(later)
    IN SubSeq(s, 1, p - 1) \o <<r>> \o SubSeq(s, p, Len(s))

RECURSIVE SortAsc(_)
SortAsc(s) ==
    IF s = <<>> THEN <<>>
    ELSE InsertAsc(SortAsc(SubSeq(s, 1, Len(s) - 1)), s[Len(s)])

\* list.sort(key=created, reverse=True): descending and stable
InsertDesc(s, r) ==
    LET earlier == {i \in DOMAIN s : s[i].created_at < r.created_at}
        p == IF earlier = {} THEN Len(s) + 1 ELSE Min(earlier)
    IN SubSeq(s, 1, p - 1) \o <<r>> \o SubSeq(s, p, Len(s))

RECURSIVE SortDesc(_)
SortDesc(s) ==
    IF s = <<>> THEN <<>>
    ELSE InsertDesc(SortDesc(SubSeq(s, 1, Len(s) - 1)), s[Len(s)])

\* drop_duplicates(subset=['ID пользователя','Дата записи','Время','Врач'], keep='last')
DropDuplicatesByUserSlot(s) ==
    Filter(s, {i \in DOMAIN s : \A j \in (i + 1)..Len(s) : SlotKey(s[j]) # SlotKey(s[i])})

\* drop_duplicates(subset=['Дата записи','Время','Врач'], keep='last')
DropDuplicatesBySlot(s) ==
    Filter(s, {i \in DOMAIN s : \A j \in (i + 1)..Len(s) : DoctorSlot(s[j]) # DoctorSlot(s[i])})

\* ------------------------------------------------- local-file backend
NewAppointmentRowPhoneFirst(date, time, name, phone, doctor, spec, u, clock) ==
    Row(date, time, phone, name, doctor, spec, "Novaya", UidStr(u), clock)

NewAppointmentRow(date, time, name, phone, doctor, spec, u, clock) ==
    Row(date, time, name, phone, doctor, spec, "Novaya", UidStr(u), clock)

Excel_add_appointment(rows, date, time, name, phone, doctor, spec, u, clock) ==
    DropDuplicatesByUserSlot(SortAsc(rows))
        \o <<NewAppointmentRow(date, time, name, phone, doctor, spec, u, clock)>>

Excel_get_appointments_by_user(rows, u) ==
    LET mine == Filter(rows, {i \in DOMAIN rows : rows[i].uid = UidStr(u)})
    IN DropDuplicatesBySlot(SortAsc(mine))

BookedStatusSynonyms == {"otmenena", "otmenyon", "cancelled", "canceled"}

Excel_get_booked_times(rows, doctor, date) ==
    LET df == DropDuplicatesBySlot(SortAsc(rows))
    IN {df[i].time : i \in {j \in DOMAIN df :
            /\ df[j].doctor = doctor
            /\ df[j].date = date
            /\ Lower(df[j].status) \notin BookedStatusSynonyms}}

\* a match that leaves the user id out
MatchesAnyOwner(r, u, date, time, doctor, created) ==
    /\ r.date = date
    /\ r.time = time
    /\ r.doctor = doctor
    /\ r.created_at = created

MatchesIdentity(r, u, date, time, doctor, created) ==
    /\ r.uid = UidStr(u)
    /\ r.date = date
    /\ r.time = time
    /\ r.doctor = doctor
    /\ r.created_at = created

\* the deletion with createdAt left out of the match
Excel_delete_by_slot_key(rows, u, date, time, doctor, created) ==
    Filter(rows, {i \in DOMAIN rows :
        SlotKey(rows[i]) # <<UidStr(u), date, time, doctor>>})

Excel_delete_appointment(rows, u, date, time, doctor, created) ==
    Filter(rows, {i \in DOMAIN rows :
        ~MatchesIdentity(rows[i], u, date, time, doctor, created)})

\* ------------------------------------------------ remote-sheet backend
Sheets_add_appointment(rows, date, time, name, phone, doctor, spec, u, clock) ==
    LET hit == {i \in DOMAIN rows :
                   SlotKey(rows[i]) = <<UidStr(u), date, time, doctor>>}
    IN IF hit # {}
       THEN [rows EXCEPT ![Min(hit)] =
                [@ EXCEPT !.status = "Obnovlena", !.created_at = clock]]
       ELSE Append(rows,
                NewAppointmentRow(date, time, name, phone, doctor, spec, u, clock))

Sheets_get_appointments_by_user(rows, u) ==
    SortDesc(Filter(rows, {i \in DOMAIN rows : rows[i].uid = UidStr(u)}))

Sheets_get_booked_times(rows, doctor, date) ==
    {rows[i].time : i \in {j \in DOMAIN rows :
        /\ rows[j].doctor = doctor
        /\ rows[j].date = date
        /\ Lower(rows[j].status) \notin BookedStatusSynonyms}}

Sheets_delete_appointment(rows, u, date, time, doctor, created) ==
    LET hit == {i \in DOMAIN rows :
                   MatchesIdentity(rows[i], u, date, time, doctor, created)}
    IN IF hit = {} THEN rows ELSE Filter(rows, DOMAIN rows \ {Min(hit)})

\* ------------------------------------------- the store the bot talks to
\* rd: the read of the table succeeded (a failed read yields nothing)
add_appointment(b, rows, date, time, name, phone, doctor, spec, u, clock) ==
    IF b = "excel"
    THEN Excel_add_appointment(rows, date, time, name, phone, doctor, spec, u, clock)
    ELSE Sheets_add_appointment(rows, date, time, name, phone, doctor, spec, u, clock)

get_nothing(rows, rd) == <<>>

get_appointments(rows, rd) == IF rd THEN rows ELSE <<>>

get_appointments_by_user(b, rows, u, rd) ==
    IF ~rd THEN <<>>
    ELSE IF b = "excel" THEN Excel_get_appointments_by_user(rows, u)
    ELSE Sheets_get_appointments_by_user(rows, u)

get_booked_times(b, rows, doctor, date, rd) ==
    IF ~rd THEN {}
    ELSE IF b = "excel" THEN Excel_get_booked_times(rows, doctor, date)
    ELSE Sheets_get_booked_times(rows, doctor, date)

delete_appointment(b, rows, u, date, time, doctor, created) ==
    IF b = "excel"
    THEN Excel_delete_appointment(rows, u, date, time, doctor, created)
    ELSE Sheets_delete_appointment(rows, u, date, time, doctor, created)

\* every public method of both store classes runs in try/except Exception:
\* an I/O error inside the method becomes the method's fallback value
ExceptReturns(failed, fallback, value) == IF failed THEN fallback ELSE value

\* f"{user.first_name} {user.last_name or ''}".strip()
FullName(u) == IF u = 101 THEN "Jane" ELSE "John"

\* the subscribers sheet: userId, name, subscribedAt
SubscriberRow(u, name, clock) == [uid |-> UidStr(u), name |-> name, at |-> clock]

NeverSubscribed(rows, u) == FALSE

IsSubscribed(rows, u) == \E i \in DOMAIN rows : rows[i].uid = UidStr(u)

\* sheet.cell(row, 7, value) / sheet.update_cell(row, 7, value) on data row i:
\* the status cell of the row, or a row holding only that cell when i is the
\* first empty row
SetStatusCell(rows, i, status) ==
    IF i \in DOMAIN rows THEN [rows EXCEPT ![i].status = status]
    ELSE IF i = Len(rows) + 1 THEN Append(rows, [NoRow EXCEPT !.status = status])
    ELSE rows

\* the data row a row_index names: ExcelManager counts sheet rows from 1 with
\* the header as row 1, GoogleSheetsManager adds one to the index
DataRowOf(b, row_index) == IF b = "excel" THEN row_index - 1 ELSE row_index

\* ------------------------------------------------------- the listing
\* bot.py sorts the user's rows by createdAt, newest first
SortListing(rows) == SortDesc(rows)

ListingCancelSynonyms == {"otmenena", "cancelled"}

\* can_cancel of build_my_appts_text_and_keyboard and show_my_appointments
can_cancel(r, clock) ==
    /\ ApptInstant(r.date, r.time) # NoInstant
    /\ ApptInstant(r.date, r.time) - clock > CancelWindow
    /\ Lower(r.status) \notin ListingCancelSynonyms

\* the message the listing renders: the numbered rows and, per cancellable
\* item, a button "cancel #i"
ListingScreen(rows, clock) ==
    [kind |-> "listing", rows |-> rows,
     buttons |-> {i \in DOMAIN rows : can_cancel(rows[i], clock)}]

\* -------------------------------------------------- the reconciliation
ActiveStatusSynonyms == {"otmenena", "otmenyon", "cancelled", "canceled", "cancel"}
HiddenStatusSynonyms == {"udalen", "udalyon", "skryt", "otklonen", "otklonyon",
                         "deleted", "hidden", "rejected"}

ReviewRow(date, name, rating, text, uid, status) ==
    [date |-> date, name |-> name, rating |-> rating, text |-> text,
     uid |-> uid, status |-> status]

build_active_appointment_keys(rows) ==
    {IdentityKey(rows[i]) : i \in {j \in DOMAIN rows :
        Lower(rows[j].status) \notin ActiveStatusSynonyms}}

build_active_review_keys(rows) ==
    {<<rows[i].uid, rows[i].date, rows[i].rating, rows[i].text>> :
        i \in {j \in DOMAIN rows : Lower(rows[j].status) \notin HiddenStatusSynonyms}}

\* preview = (review_text[:120] + '...') if len(review_text) > 120 else review_text
\* (the source's marker is the one-character ellipsis)
PreviewCap == 120
Ellipsis == "..."
\* a preview that cuts a text of exactly 120 characters too
PreviewFrom120(text) ==
    IF Len(text) >= PreviewCap THEN SubSeq(text, 1, PreviewCap) \o Ellipsis ELSE text

Preview(text) ==
    IF Len(text) > PreviewCap THEN SubSeq(text, 1, PreviewCap) \o Ellipsis ELSE text

\* one call of bot.send_message: whom it is addressed to and what its text
\* names; `about` is the key the loop was at when it made the call
AppointmentNotice(k) ==
    [kind |-> "appointment", about |-> k, to |-> UidInt(k[1]), date |-> k[2],
     time |-> k[3], doctor |-> k[4], rating |-> NoValue, text |-> NoValue]

\* a notice that leaves the review's text out
ReviewNoticeWithoutText(k) ==
    [kind |-> "review", about |-> k, to |-> UidInt(k[1]), date |-> k[2],
     time |-> NoValue, doctor |-> NoValue, rating |-> k[3], text |-> NoValue]

ReviewNotice(k) ==
    [kind |-> "review", about |-> k, to |-> UidInt(k[1]), date |-> k[2],
     time |-> NoValue, doctor |-> NoValue, rating |-> k[3], text |-> Preview(k[4])]

\* for ... in removed_appts: send_message(...)
RECURSIVE AppointmentNotices(_)
AppointmentNotices(keys) ==
    IF keys = {} THEN <<>>
    ELSE LET k == CHOOSE x \in keys : TRUE
         IN <<AppointmentNotice(k)>> \o AppointmentNotices(keys \ {k})

\* for ... in removed_reviews: send_message(...)
RECURSIVE ReviewNotices(_)
ReviewNotices(keys) ==
    IF keys = {} THEN <<>>
    ELSE LET k == CHOOSE x \in keys : TRUE
         IN <<ReviewNotice(k)>> \o ReviewNotices(keys \ {k})

\* a loop that keeps every key it ever knew in the baseline
KeepBaseline(known, current) == known \cup current

\* known_active_..._keys = current_..., at the end of a tick
StaleBaseline(known, current) == known

\* a loop that a failed read would end
DiesOnFailedRead(rdA, rdR, reach, rdV, edited) == rdA /\ rdR

\* `except Exception: pass` around the loop body, and around each send and
\* refresh within it: whatever failed in the pass, the task goes on to
\* asyncio.sleep and to the next pass
SurvivesTick(rdA, rdR, reach, rdV, edited) == TRUE

NextBaseline(known, current) == current

\* ----------------------------------------------------------------- state
VARIABLES
    backend,        \* which store class bot.py instantiated
    available,      \* the file can be opened / the spreadsheet can be reached
    workbook,       \* ExcelManager.workbook: the sheets as openpyxl holds them in memory
    appts,          \* sheet 'Записи на прием': the rows under the header
    reviews,        \* sheet 'Отзывы'
    subscribers,    \* sheet 'Подписчики'
    now,            \* the clock, in hours
    user_data,      \* bot.user_data: the booking session of each user
    conv,           \* the booking ConversationHandler's state of each user
    review,         \* the review ConversationHandler's state and context.user_data['rating']
    offered,        \* the time buttons of the last slot keyboard shown to each user
    my_appts,       \* context.user_data['my_appts'] of each user
    my_appts_cache, \* bot.my_appts_cache
    my_appts_view,  \* bot.my_appts_view: the message that shows the listing
    shown,          \* what the user's menu message displays
    excel_sync_started,
    tasks,          \* background_excel_sync tasks created on the application
    known_active_appointment_keys,
    known_active_review_keys,
    sync,           \* what the last reconciliation tick read and sent
    last            \* the last store call or handler run and what it answered

storeVars == <<backend, available, workbook, appts, reviews, subscribers>>
dialogVars == <<user_data, conv, review, offered>>
listingVars == <<my_appts, my_appts_cache, my_appts_view, shown>>
syncVars == <<excel_sync_started, tasks, known_active_appointment_keys,
              known_active_review_keys, sync>>
vars == <<backend, available, workbook, appts, reviews, subscribers, now, user_data, conv, review, offered, my_appts,
          my_appts_cache, my_appts_view, shown, excel_sync_started, tasks,
          known_active_appointment_keys, known_active_review_keys, sync, last>>

NoSession == [doctor |-> NoValue, specialization |-> NoValue, date |-> NoValue,
              time |-> NoValue, name |-> NoValue, phone |-> NoValue]
NoReview == [state |-> "none", rating |-> NoValue]
NoScreen == [kind |-> "menu", rows |-> <<>>, buttons |-> {}]
NoSync == [ticks |-> 0, baseline |-> {}, current |-> {}, sent |-> <<>>,
           unsent |-> <<>>, before |-> {}, changed |-> FALSE, quiet |-> FALSE,
           turn |-> 0, alive |-> TRUE]
\* sync is the record of the last tick: ticks the number of passes made,
\* baseline/current the appointment keys the pass compared,
\* sent its send_message calls in order, before the keys the pass before it
\* found removed, changed whether the store was written since the pass, quiet
\* whether the store was not written between the pass before it and this one
Answer(op, u, ok, row, idx, run) ==
    [op |-> op, user |-> u, ok |-> ok, row |-> row, idx |-> idx, run |-> run,
     alert |-> NoValue, returned |-> NoValue, input |-> NoValue]

\* The state after construction: a new workbook with the four headed sheets
\* (ExcelManager.setup_excel_file), nothing in the module-level dictionaries.
InitBot ==
    /\ available = TRUE
    /\ workbook = [appts |-> <<>>, reviews |-> <<>>, subscribers |-> <<>>]
    /\ reviews = <<>>
    /\ subscribers = <<>>
    /\ now = 0
    /\ user_data = [u \in Users |-> NoSession]
    /\ conv = [u \in Users |-> "none"]
    /\ review = [u \in Users |-> NoReview]
    /\ offered = [u \in Users |-> {}]
    /\ my_appts = [u \in Users |-> <<>>]
    /\ my_appts_cache = [u \in Users |-> <<>>]
    /\ my_appts_view = [u \in Users |-> FALSE]
    /\ shown = [u \in Users |-> NoScreen]
    /\ excel_sync_started = FALSE
    /\ tasks = 0
    /\ known_active_appointment_keys = {}
    /\ known_active_review_keys = {}
    /\ sync = NoSync
    /\ last = Answer("init", 0, TRUE, NoRow, 0, 0)

Init ==
    /\ backend \in Backends
    /\ appts = <<>>
    /\ InitBot

\* ------------------------------------------------------------ environment
\* time passes
AdvanceClock ==
    /\ now < MaxNow
    /\ now' = now + 1
    /\ UNCHANGED <<storeVars, dialogVars, listingVars, syncVars, last>>

\* ------------------------------------------------ the store, call by call
\* append(table, record).  wr: the write reached the file or the sheet; a
\* write that did not (file held open, network) leaves the table as it was
\* and the call answers False.
Call_add_appointment(u, date, time, name, phone, doctor, wr) ==
    LET new == NewAppointmentRow(date, time, name, phone, doctor, SpecOf(doctor), u, now)
        same == {i \in DOMAIN appts : SlotKey(appts[i]) = SlotKey(new)}
        grows == /\ wr
                 /\ \/ same = {}
                    \/ /\ last.op = "add_appointment"
                       /\ last.run >= 1
                       /\ SlotKey(last.row) = SlotKey(new)
                       /\ last.row.created_at < now
    IN /\ Len(add_appointment(backend, appts, date, time, name, phone,
                               doctor, SpecOf(doctor), u, now)) <= MaxRows
       /\ appts' = IF wr
                   THEN add_appointment(backend, appts, date, time, name, phone,
                                        doctor, SpecOf(doctor), u, now)
                   ELSE appts
       /\ last' = Answer("add_appointment", u, wr, new, 0,
                         IF ~grows THEN 0
                         ELSE IF same = {} THEN 1 ELSE last.run + 1)
       /\ sync' = [sync EXCEPT !.changed = @ \/ wr]
       /\ UNCHANGED <<backend, available, workbook, subscribers, reviews, now, dialogVars, listingVars,
                      excel_sync_started, tasks, known_active_appointment_keys,
                      known_active_review_keys>>

\* deleteByIdentityKey(table, identityKey)
Call_delete_appointment(u, date, time, doctor, created, wr) ==
    LET after == delete_appointment(backend, appts, u, date, time, doctor, created)
        ok == wr /\ after # appts
    IN /\ appts' = IF ok THEN after ELSE appts
       /\ last' = Answer("delete_appointment", u, ok,
                         Row(date, time, NoValue, NoValue, doctor, NoValue, NoValue,
                             UidStr(u), created), 0, 0)
       /\ sync' = [sync EXCEPT !.changed = @ \/ ok]
       /\ UNCHANGED <<backend, available, workbook, subscribers, reviews, now, dialogVars, listingVars,
                      excel_sync_started, tasks, known_active_appointment_keys,
                      known_active_review_keys>>

\* scanAll(table)
Call_get_appointments(rd) ==
    /\ last' = [Answer("get_appointments", 0, rd, NoRow, 0, 0)
                   EXCEPT !.returned = ExceptReturns(~rd, <<>>, appts)]
    /\ UNCHANGED <<storeVars, now, dialogVars, listingVars, syncVars>>

\* scanByUser(table, userId)
Call_get_appointments_by_user(u, rd) ==
    /\ last' = [Answer("get_appointments_by_user", u, rd, NoRow, 0, 0)
                   EXCEPT !.returned =
                       ExceptReturns(~rd, <<>>,
                                     get_appointments_by_user(backend, appts, u, TRUE))]
    /\ UNCHANGED <<storeVars, now, dialogVars, listingVars, syncVars>>

\* findBookedTimes(doctor, date)
Call_get_booked_times(doctor, date, rd) ==
    /\ last' = [Answer("get_booked_times", 0, rd, NoRow, 0, 0)
                   EXCEPT !.returned =
                       ExceptReturns(~rd, {},
                                     get_booked_times(backend, appts, doctor, date, TRUE))]
    /\ UNCHANGED <<storeVars, now, dialogVars, listingVars, syncVars>>

\* update_appointment_status(row_index, new_status).  ExcelManager sets the
\* cell in the workbook it holds and saves that workbook over the file;
\* GoogleSheetsManager updates the cell of the sheet.
Call_update_appointment_status(row_index, status, wr) ==
    LET i == DataRowOf(backend, row_index)
        held == [workbook EXCEPT !.appts = SetStatusCell(@, i, status)]
        ok == ExceptReturns(~wr, FALSE, TRUE)
    IN /\ i >= 1
       /\ i <= (IF backend = "excel" THEN Len(workbook.appts) ELSE Len(appts)) + 1
       /\ i <= MaxRows
       /\ workbook' = IF backend = "excel" THEN held ELSE workbook
       /\ appts' = IF ~wr THEN appts
                   ELSE IF backend = "excel" THEN held.appts
                   ELSE SetStatusCell(appts, i, status)
       /\ reviews' = IF wr /\ backend = "excel" THEN held.reviews ELSE reviews
       /\ subscribers' = IF wr /\ backend = "excel" THEN held.subscribers
                         ELSE subscribers
       /\ last' = [Answer("update_appointment_status", 0, ok, NoRow, row_index, 0)
                      EXCEPT !.returned = ok]
       /\ sync' = [sync EXCEPT !.changed = @ \/ wr]
       /\ UNCHANGED <<backend, available, now, dialogVars, listingVars,
                      excel_sync_started, tasks, known_active_appointment_keys,
                      known_active_review_keys>>

\* add_subscriber(user_id, user_name).  ExcelManager looks the user up in the
\* workbook it holds, writes the row there and saves the workbook over the
\* file; GoogleSheetsManager reads the sheet, then appends the row.
\* rd: the read of the sheet succeeded; wr: the save or the append did
Call_add_subscriber(u, rd, wr) ==
    LET new == SubscriberRow(u, FullName(u), now)
        known == IF backend = "excel" THEN IsSubscribed(workbook.subscribers, u)
                 ELSE rd /\ IsSubscribed(subscribers, u)
        held == IF backend = "excel" /\ ~known
                THEN [workbook EXCEPT !.subscribers = Append(@, new)]
                ELSE workbook
        saved == ~known /\ wr /\ (backend = "sheets" => rd)
        ok == IF backend = "excel"
              THEN known \/ ExceptReturns(~wr, FALSE, TRUE)
              ELSE ExceptReturns(~rd, FALSE, known \/ ExceptReturns(~wr, FALSE, TRUE))
    IN /\ workbook' = held
       /\ subscribers' = IF ~saved THEN subscribers
                         ELSE IF backend = "excel" THEN held.subscribers
                         ELSE Append(subscribers, new)
       /\ appts' = IF saved /\ backend = "excel" THEN held.appts ELSE appts
       /\ reviews' = IF saved /\ backend = "excel" THEN held.reviews ELSE reviews
       /\ last' = [Answer("add_subscriber", u, ok,
                          [NoRow EXCEPT !.uid = new.uid, !.name = new.name,
                                        !.created_at = new.at], 0, 0)
                      EXCEPT !.returned = ok]
       /\ sync' = [sync EXCEPT !.changed = @ \/ (saved /\ backend = "excel")]
       /\ UNCHANGED <<backend, available, now, dialogVars, listingVars,
                      excel_sync_started, tasks, known_active_appointment_keys,
                      known_active_review_keys>>

\* ------------------------------------------- the administrator's edits
\* The sheet is edited directly, outside the bot: a row typed in, a status
\* cell changed, a row removed.
AdminAddRow(u, date, time, doctor, status, created) ==
    /\ Len(appts) < MaxRows
    /\ appts' = Append(appts, Row(date, time, "Jane", "+100", doctor, SpecOf(doctor),
                                  status, UidStr(u), created))
    /\ last' = Answer("admin", 0, TRUE, NoRow, 0, 0)
    /\ sync' = [sync EXCEPT !.changed = TRUE]
    /\ UNCHANGED <<backend, available, workbook, subscribers, reviews, now, dialogVars, listingVars,
                   excel_sync_started, tasks, known_active_appointment_keys,
                   known_active_review_keys>>

AdminSetStatus(i, status) ==
    /\ i \in DOMAIN appts
    /\ appts[i].status # status
    /\ appts' = [appts EXCEPT ![i].status = status]
    /\ last' = Answer("admin", 0, TRUE, NoRow, 0, 0)
    /\ sync' = [sync EXCEPT !.changed = TRUE]
    /\ UNCHANGED <<backend, available, workbook, subscribers, reviews, now, dialogVars, listingVars,
                   excel_sync_started, tasks, known_active_appointment_keys,
                   known_active_review_keys>>

AdminDeleteRow(i) ==
    /\ i \in DOMAIN appts
    /\ appts' = Filter(appts, DOMAIN appts \ {i})
    /\ last' = Answer("admin", 0, TRUE, NoRow, 0, 0)
    /\ sync' = [sync EXCEPT !.changed = TRUE]
    /\ UNCHANGED <<backend, available, workbook, subscribers, reviews, now, dialogVars, listingVars,
                   excel_sync_started, tasks, known_active_appointment_keys,
                   known_active_review_keys>>

AdminAddReview(u, rating, text) ==
    /\ Len(reviews) < MaxReviews
    /\ reviews' = Append(reviews, ReviewRow(now, "Jane", rating, text, UidStr(u), "Novyj"))
    /\ last' = Answer("admin", 0, TRUE, NoRow, 0, 0)
    /\ sync' = [sync EXCEPT !.changed = TRUE]
    /\ UNCHANGED <<backend, available, workbook, subscribers, appts, now, dialogVars, listingVars,
                   excel_sync_started, tasks, known_active_appointment_keys,
                   known_active_review_keys>>

AdminSetReviewStatus(i, status) ==
    /\ i \in DOMAIN reviews
    /\ reviews[i].status # status
    /\ reviews' = [reviews EXCEPT ![i].status = status]
    /\ last' = Answer("admin", 0, TRUE, NoRow, 0, 0)
    /\ sync' = [sync EXCEPT !.changed = TRUE]
    /\ UNCHANGED <<backend, available, workbook, subscribers, appts, now, dialogVars, listingVars,
                   excel_sync_started, tasks, known_active_appointment_keys,
                   known_active_review_keys>>

\* ------------------------------------------- the reconciliation loop
\* a flag that stays down after the task was created
FlagLeftDown(started, created) == started

\* start / button_handler: the flag is raised on the line after create_task,
\* which an exception of create_task skips.  created: create_task returned
FlagAfterCreate(started, created) == started \/ created

\* the tasks the application holds after one more create_task call
TasksAfterCreate(n, created) == IF created /\ n < MaxTasks THEN n + 1 ELSE n

\* start / button_handler create the task once; the task's prologue takes the
\* first snapshot.  rdA, rdR: the two reads of the store succeeded.
StartSync(rdA, rdR) ==
    /\ ~excel_sync_started
    /\ excel_sync_started' = TRUE
    /\ tasks' = TasksAfterCreate(tasks, TRUE)
    /\ known_active_appointment_keys' =
           build_active_appointment_keys(get_appointments(appts, rdA))
    /\ known_active_review_keys' =
           build_active_review_keys(get_appointments(reviews, rdR))
    /\ sync' = [NoSync EXCEPT !.changed = FALSE]
    /\ last' = Answer("start_sync", 0, rdA /\ rdR, NoRow, 0, 0)
    /\ UNCHANGED <<storeVars, now, dialogVars, listingVars>>

\* refresh_my_appts_message_for_user, for the users of `who`.  rdV: the read
\* of the user's rows succeeded; edited: edit_message_text went through.
RefreshedCache(who, rdV) ==
    [u \in Users |->
        IF u \in who /\ my_appts_view[u]
        THEN SortListing(get_appointments_by_user(backend, appts, u, rdV))
        ELSE my_appts_cache[u]]

RefreshedScreens(who, rdV, edited) ==
    [u \in Users |->
        IF u \in who /\ my_appts_view[u] /\ edited
        THEN ListingScreen(
                 SortListing(get_appointments_by_user(backend, appts, u, rdV)), now)
        ELSE shown[u]]

\* one pass of the loop body of background_excel_sync.  reach: the users
\* send_message goes through for (a send that raises skips the refresh that
\* follows it).
SyncTick(rdA, rdR, reach, rdV, edited) ==
    LET current_appts == build_active_appointment_keys(get_appointments(appts, rdA))
        current_reviews == build_active_review_keys(get_appointments(reviews, rdR))
        removed_appts == known_active_appointment_keys \ current_appts
        removed_reviews == known_active_review_keys \ current_reviews
        who == {UidInt(k[1]) : k \in removed_appts} \cap reach
        calls == AppointmentNotices(removed_appts) \o ReviewNotices(removed_reviews)
    IN /\ excel_sync_started
       /\ sync.alive
       /\ known_active_appointment_keys' =
              NextBaseline(known_active_appointment_keys, current_appts)
       /\ known_active_review_keys' =
              NextBaseline(known_active_review_keys, current_reviews)
       /\ my_appts_cache' = RefreshedCache(who, rdV)
       /\ shown' = RefreshedScreens(who, rdV, edited)
       /\ sync' = [ticks |-> IF sync.ticks < MaxTicks THEN sync.ticks + 1 ELSE sync.ticks,
                   turn |-> 1 - sync.turn,
                   alive |-> SurvivesTick(rdA, rdR, reach, rdV, edited),
                   baseline |-> known_active_appointment_keys,
                   current |-> current_appts,
                   sent |-> calls,
                   unsent |-> Filter(calls, {i \in DOMAIN calls : calls[i].to \notin reach}),
                   before |-> sync.baseline \ sync.current,
                   changed |-> FALSE,
                   quiet |-> sync.ticks >= 1 /\ ~sync.changed]
       /\ last' = Answer("tick", 0, TRUE, NoRow, 0, 0)
       /\ UNCHANGED <<storeVars, now, dialogVars, my_appts, my_appts_view,
                      excel_sync_started, tasks>>

\* --------------------------------------------------- the booking dialog
HasSession(u) == user_data[u] # NoSession

Screen(kind) == [kind |-> kind, rows |-> <<>>, buttons |-> {}]

\* the first lines of button_handler: the reconciliation task is created if
\* it was not yet, and takes its first snapshot at the handler's first
\* suspension, of the table the handler leaves (rowsAfter); wrote: the
\* handler wrote to the store.
CreateTask(rowsAfter, wrote, created) ==
    LET creates == ~excel_sync_started /\ created
    IN /\ excel_sync_started' = FlagAfterCreate(excel_sync_started, created)
       /\ tasks' = IF excel_sync_started THEN tasks ELSE TasksAfterCreate(tasks, created)
       /\ known_active_appointment_keys' =
              IF creates THEN build_active_appointment_keys(rowsAfter)
              ELSE known_active_appointment_keys
       /\ known_active_review_keys' =
              IF creates THEN build_active_review_keys(reviews)
              ELSE known_active_review_keys
       /\ sync' = IF creates THEN NoSync
                  ELSE [sync EXCEPT !.changed = @ \/ wrote]

\* the prologue with a create_task that returns
ButtonPrologue(rowsAfter, wrote) == CreateTask(rowsAfter, wrote, TRUE)

\* command /start: the same prologue, then the main menu is sent as a new
\* message.  created: create_task returned; replied: reply_text went through
start(u, created, replied) ==
    /\ shown' = IF replied THEN [shown EXCEPT ![u] = Screen("menu")] ELSE shown
    /\ last' = [Answer("start", u, replied, NoRow, 0, 0)
                   EXCEPT !.returned = ~excel_sync_started /\ created]
    /\ CreateTask(appts, FALSE, created)
    /\ UNCHANGED <<storeVars, now, dialogVars, my_appts, my_appts_cache, my_appts_view>>

\* button "clinic_info": the prologue of button_handler, then the message is
\* edited into the clinic's card.  edited: edit_message_text went through
show_clinic_info(u, created, edited) ==
    /\ shown' = IF edited THEN [shown EXCEPT ![u] = Screen("clinic_info")] ELSE shown
    /\ last' = [Answer("show_clinic_info", u, edited, NoRow, 0, 0)
                   EXCEPT !.returned = ~excel_sync_started /\ created]
    /\ CreateTask(appts, FALSE, created)
    /\ UNCHANGED <<storeVars, now, dialogVars, my_appts, my_appts_cache, my_appts_view>>

\* button "doctor_<specialization>_<index>"
show_doctor_details(u, spec, idx) ==
    /\ user_data' = IF idx \in DOMAIN DOCTORS[spec]
                    THEN [user_data EXCEPT ![u] =
                             [NoSession EXCEPT !.doctor = DOCTORS[spec][idx],
                                               !.specialization = spec]]
                    ELSE user_data
    /\ shown' = [shown EXCEPT ![u] =
                    IF idx \in DOMAIN DOCTORS[spec] THEN Screen("dates")
                    ELSE Screen("error")]
    /\ last' = Answer("show_doctor_details", u, idx \in DOMAIN DOCTORS[spec],
                      NoRow, idx, 0)
    /\ ButtonPrologue(appts, FALSE)
    /\ UNCHANGED <<storeVars, now, conv, review, offered, my_appts, my_appts_cache,
                   my_appts_view>>

\* The date buttons of show_doctor_details.  Days are counted from a Monday,
\* so that date.weekday() is the day number modulo 7 (Monday is 0).
DaysPerWeek == 7
FirstWeekendDay == 5
DaysAhead == 14

Weekday(day) == day % DaysPerWeek

\* for i in range(14): date = now + timedelta(days=i+1);
\*     if date.weekday() < 5: dates.append(date)
RECURSIVE DatesLoop(_, _)
DatesLoop(today, i) ==
    IF i >= DaysAhead THEN <<>>
    ELSE (IF Weekday(today + (i + 1)) < FirstWeekendDay
          THEN <<today + (i + 1)>> ELSE <<>>)
         \o DatesLoop(today, i + 1)

CandidateDatesFromToday(today) == DatesLoop(today - 1, 0)

CandidateDates(today) == DatesLoop(today, 0)

\* the date keyboard a user gets who opens a doctor's card on day today
show_doctor_dates(u, today) ==
    /\ last' = [Answer("show_doctor_dates", u, TRUE, NoRow, today, 0)
                   EXCEPT !.returned = CandidateDates(today)]
    /\ UNCHANGED <<storeVars, now, dialogVars, listingVars, syncVars>>

\* button "date_<date>".  rd: the store read went through.
show_available_times(u, date, rd) ==
    LET doctor_name == user_data[u].doctor
        booked == IF HasSession(u)
                  THEN get_booked_times(backend, appts, doctor_name, date, rd)
                  ELSE {}
    IN /\ offered' = [offered EXCEPT ![u] = Times \ booked]
       /\ user_data' = IF HasSession(u)
                       THEN [user_data EXCEPT ![u].date = date]
                       ELSE user_data
       /\ shown' = [shown EXCEPT ![u] = Screen("times")]
       /\ last' = Answer("show_available_times", u, rd,
                         Row(date, NoValue, NoValue, NoValue, doctor_name, NoValue,
                             NoValue, UidStr(u), 0), 0, 0)
       /\ ButtonPrologue(appts, FALSE)
       /\ UNCHANGED <<storeVars, now, conv, review, my_appts, my_appts_cache,
                      my_appts_view>>

\* button "time_<time>", the entry point of the booking conversation
start_appointment_form(u, time) ==
    /\ conv[u] = "none"
    /\ shown[u].kind = "times"
    /\ time \in offered[u]
    /\ user_data' = IF HasSession(u)
                    THEN [user_data EXCEPT ![u].time = time]
                    ELSE user_data
    /\ conv' = [conv EXCEPT ![u] = "ENTERING_NAME"]
    /\ shown' = [shown EXCEPT ![u] = Screen("form")]
    /\ last' = Answer("start_appointment_form", u, TRUE, NoRow, 0, 0)
    /\ UNCHANGED <<storeVars, now, review, offered, my_appts, my_appts_cache,
                   my_appts_view, syncVars>>

\* a text message in state ENTERING_NAME
enter_name(u, name) ==
    /\ conv[u] = "ENTERING_NAME"
    /\ user_data' = IF HasSession(u)
                    THEN [user_data EXCEPT ![u].name = name]
                    ELSE user_data
    /\ conv' = [conv EXCEPT ![u] = "ENTERING_PHONE"]
    /\ last' = Answer("enter_name", u, TRUE, NoRow, 0, 0)
    /\ UNCHANGED <<storeVars, now, review, offered, listingVars, syncVars>>

\* a dictionary emptied as a whole
SessionsCleared(sessions, u) == [v \in Users |-> NoSession]

\* del user_data[user_id]
SessionsWithout(sessions, u) == [sessions EXCEPT ![u] = NoSession]

\* a text message in state ENTERING_PHONE.  wr: the store write went through.
\* A session without date, time or name makes data[...] raise KeyError: the
\* handler ends there, the conversation stays where it was.
enter_phone(u, phone, wr) ==
    LET data == user_data[u]
        complete == data.date # NoValue /\ data.time # NoValue /\ data.name # NoValue
        after == add_appointment(backend, appts, data.date, data.time, data.name,
                                 phone, data.doctor, data.specialization, u, now)
        new == NewAppointmentRow(data.date, data.time, data.name, phone, data.doctor,
                                 data.specialization, u, now)
    IN /\ conv[u] = "ENTERING_PHONE"
       /\ (HasSession(u) /\ complete) => Len(after) <= MaxRows
       /\ appts' = IF HasSession(u) /\ complete /\ wr THEN after ELSE appts
       /\ user_data' = IF ~HasSession(u) THEN user_data
                       ELSE IF complete THEN SessionsWithout(user_data, u)
                       ELSE [user_data EXCEPT ![u].phone = phone]
       /\ conv' = IF HasSession(u) /\ ~complete THEN conv
                  ELSE [conv EXCEPT ![u] = "none"]
       /\ last' = [Answer("enter_phone", u, HasSession(u) /\ complete /\ wr,
                          IF HasSession(u) /\ complete THEN new ELSE NoRow, 0, 0)
                      EXCEPT !.alert = IF ~HasSession(u) THEN NoValue
                                       ELSE IF ~complete THEN "KeyError"
                                       ELSE IF wr THEN "Zapis uspeshno sozdana"
                                       ELSE "Oshibka pri sozdanii zapisi"]
       /\ sync' = [sync EXCEPT !.changed = @ \/ (HasSession(u) /\ complete /\ wr)]
       /\ UNCHANGED <<backend, available, workbook, subscribers, reviews, now, review, offered, listingVars,
                      excel_sync_started, tasks, known_active_appointment_keys,
                      known_active_review_keys>>

\* ------------------------------------------------------------- the reviews
Ratings == {"1", "5"}

\* ExcelManager.add_review writes the row into the workbook held in memory
\* and saves that workbook over the file; GoogleSheetsManager.add_review
\* appends the row to the sheet.  wr: the save or the append went through.
NewReviewRow(u, rating, text, clock) ==
    ReviewRow(clock, FullName(u), rating, text, UidStr(u), "Novyj")

\* a text step that keeps the rating when the write failed
RatingKeptOnFailure(rating, wr) == IF wr THEN NoValue ELSE rating

\* if 'rating' in context.user_data: del context.user_data['rating']
RatingAfterReview(rating, wr) == NoValue

\* button "write_review", the entry point of the review conversation
start_review(u) ==
    /\ review[u].state = "none"
    /\ review' = [review EXCEPT ![u].state = "REVIEW_RATING"]
    /\ shown' = [shown EXCEPT ![u] = Screen("rating")]
    /\ last' = Answer("start_review", u, TRUE, NoRow, 0, 0)
    /\ UNCHANGED <<storeVars, now, user_data, conv, offered, my_appts, my_appts_cache,
                   my_appts_view, syncVars>>

\* button "rating_<n>" in state REVIEW_RATING
handle_rating(u, rating) ==
    /\ review[u].state = "REVIEW_RATING"
    /\ review' = [review EXCEPT ![u] = [state |-> "REVIEW_TEXT", rating |-> rating]]
    /\ shown' = [shown EXCEPT ![u] = Screen("review_text")]
    /\ last' = Answer("handle_rating", u, TRUE, NoRow, 0, 0)
    /\ UNCHANGED <<storeVars, now, user_data, conv, offered, my_appts, my_appts_cache,
                   my_appts_view, syncVars>>

\* a text message in state REVIEW_TEXT; the booking conversation is asked
\* first, so the text gets here only when that one is not waiting for text
handle_review_text(u, text, wr) ==
    LET rating == IF review[u].rating = NoValue THEN "5" ELSE review[u].rating
        new == NewReviewRow(u, rating, text, now)
        held == [workbook EXCEPT !.reviews = Append(@, new)]
    IN /\ review[u].state = "REVIEW_TEXT"
       /\ conv[u] = "none"
       /\ Len(reviews) < MaxReviews
       /\ Len(workbook.reviews) < MaxReviews
       /\ workbook' = IF backend = "excel" THEN held ELSE workbook
       /\ reviews' = IF ~wr THEN reviews
                     ELSE IF backend = "excel" THEN held.reviews
                     ELSE Append(reviews, new)
       /\ appts' = IF wr /\ backend = "excel" THEN held.appts ELSE appts
       /\ subscribers' = IF wr /\ backend = "excel" THEN held.subscribers
                        ELSE subscribers
       /\ review' = [review EXCEPT ![u] =
                         [state |-> "none",
                          rating |-> RatingAfterReview(review[u].rating, wr)]]
       /\ last' = [Answer("handle_review_text", u, wr, NoRow, 0, 0)
                      EXCEPT !.alert = IF wr THEN "Spasibo za vash otzyv"
                                       ELSE "Oshibka pri sohranenii otzyva"]
       /\ sync' = [sync EXCEPT !.changed = @ \/ wr]
       /\ UNCHANGED <<backend, available, now, user_data, conv, offered, listingVars,
                      excel_sync_started, tasks, known_active_appointment_keys,
                      known_active_review_keys>>

\* the command /cancel, the fallback of both conversations: the booking
\* conversation is registered first and takes the command when the user is
\* in it, the review conversation takes it otherwise
cancel(u) ==
    /\ conv[u] # "none" \/ review[u].state # "none"
    /\ conv' = [conv EXCEPT ![u] = "none"]
    /\ review' = IF conv[u] # "none" THEN review
                 ELSE [review EXCEPT ![u].state = "none"]
    /\ last' = [Answer("cancel", u, TRUE, NoRow, 0, 0)
                   EXCEPT !.alert = "Operaciya otmenena"]
    /\ UNCHANGED <<storeVars, now, user_data, offered, listingVars, syncVars>>

\* --------------------------------------------------------- my appointments
\* what show_my_appointments leaves in context.user_data['my_appts']: the
\* list is replaced only when the user has rows
CachedAfterListing(cached, rows) == IF rows # <<>> THEN rows ELSE cached

\* button "my_appointments".  rd: the store read went through; edited:
\* edit_message_text went through (when it raises, the handler ends before
\* the view is registered).
show_my_appointments(u, rd, edited) ==
    LET appointments == SortListing(get_appointments_by_user(backend, appts, u, rd))
    IN /\ my_appts' = [my_appts EXCEPT ![u] = CachedAfterListing(@, appointments)]
       /\ shown' = IF edited THEN [shown EXCEPT ![u] = ListingScreen(appointments, now)]
                   ELSE shown
       /\ my_appts_view' = IF edited THEN [my_appts_view EXCEPT ![u] = TRUE]
                           ELSE my_appts_view
       /\ last' = Answer("show_my_appointments", u, edited, NoRow, 0, 0)
       /\ ButtonPrologue(appts, FALSE)
       /\ UNCHANGED <<storeVars, now, dialogVars, my_appts_cache>>

\* button "back_to_menu": the message is edited into the main menu.
\* edited: edit_message_text went through
show_main_menu(u, edited) ==
    /\ shown' = IF edited THEN [shown EXCEPT ![u] = Screen("menu")] ELSE shown
    /\ last' = Answer("show_main_menu", u, edited, NoRow, 0, 0)
    /\ ButtonPrologue(appts, FALSE)
    /\ UNCHANGED <<storeVars, now, dialogVars, my_appts, my_appts_cache, my_appts_view>>

\* a window test that lets the boundary through
CancelAllowedFrom24h(r, clock) ==
    /\ ApptInstant(r.date, r.time) # NoInstant
    /\ ApptInstant(r.date, r.time) - clock >= CancelWindow

\* the 24-hour check of cancel_appointment_by_index
CancelAllowed(r, clock) ==
    /\ ApptInstant(r.date, r.time) # NoInstant
    /\ ApptInstant(r.date, r.time) - clock > CancelWindow

\* a range test without its lower end
IndexUpToLen(index, cached) == index <= Len(cached)

\* not (index < 1 or index > len(appts))
IndexInRange(index, cached) == index >= 1 /\ index <= Len(cached)

\* button "cancel_appt_<index>".  wr: the store write went through; rd,
\* edited: as in show_my_appointments, which the handler calls after a
\* deletion; rdV, editedV: the same for the refresh that follows it.
cancel_appointment_by_index(u, index, wr, rd, edited, rdV, editedV) ==
    LET cached == my_appts[u]
        inRange == IndexInRange(index, cached)
        r == IF index \in DOMAIN cached THEN cached[index] ELSE NoRow
        parsed == ApptInstant(r.date, r.time) # NoInstant
        allowed == inRange /\ CancelAllowed(r, now)
        after == delete_appointment(backend, appts, u, r.date, r.time, r.doctor,
                                    r.created_at)
        ok == allowed /\ wr /\ after # appts
        rowsAfter == IF ok THEN after ELSE appts
        listed == SortListing(get_appointments_by_user(backend, rowsAfter, u, rd))
        relisted == SortListing(get_appointments_by_user(backend, rowsAfter, u, rdV))
        refreshed == ok /\ edited
    IN /\ appts' = rowsAfter
       /\ my_appts' = IF ok THEN [my_appts EXCEPT ![u] = CachedAfterListing(@, listed)]
                      ELSE my_appts
       /\ my_appts_view' = IF refreshed THEN [my_appts_view EXCEPT ![u] = TRUE]
                           ELSE my_appts_view
       /\ my_appts_cache' = IF refreshed THEN [my_appts_cache EXCEPT ![u] = relisted]
                            ELSE my_appts_cache
       /\ shown' = IF refreshed
                   THEN [shown EXCEPT ![u] =
                            IF editedV THEN ListingScreen(relisted, now)
                            ELSE ListingScreen(listed, now)]
                   ELSE shown
       /\ last' = [Answer("cancel_appointment_by_index", u, ok, r, index, 0)
                      EXCEPT !.alert =
                          IF ~inRange THEN "Nevernyj nomer zapisi"
                          ELSE IF ~parsed THEN "Ne udalos proverit vremya zapisi"
                          ELSE IF ~allowed THEN "Otmenit mozhno tolko bolee chem za 24 chasa"
                          ELSE IF ok THEN "Zapis otmenena"
                          ELSE "Oshibka pri otmene zapisi"]
       /\ ButtonPrologue(rowsAfter, ok)
       /\ UNCHANGED <<backend, available, workbook, subscribers, reviews, now, dialogVars>>

\* ---------------------------------- specification: the reconciliation
SyncStart == \E rdA, rdR \in BOOLEAN : StartSync(rdA, rdR)

SyncPass ==
    /\ sync.ticks < MaxTicks
    /\ \E rdA, rdR \in BOOLEAN : SyncTick(rdA, rdR, Users, TRUE, TRUE)

\* the table the loop starts from
SyncAdminAdd ==
    /\ ~excel_sync_started
    /\ \E u \in Users : AdminAddRow(u, "D1", "09:00", "Ivanov", "Novaya", Len(appts))

\* what the administrator does to it while the loop runs
SyncAdminStatus ==
    /\ excel_sync_started
    /\ \E i \in 1..MaxRows : AdminSetStatus(i, "Otmenena")

SyncAdminDelete ==
    /\ excel_sync_started
    /\ \E i \in 1..MaxRows : AdminDeleteRow(i)

SyncAdminReview ==
    /\ ~excel_sync_started
    /\ AdminAddReview(101, "5", "Great")

SyncAdminHide ==
    /\ excel_sync_started
    /\ \E i \in 1..MaxReviews : AdminSetReviewStatus(i, "Skryt")

NextSync ==
    \/ SyncStart
    \/ SyncPass
    \/ SyncAdminAdd
    \/ SyncAdminStatus
    \/ SyncAdminDelete
    \/ SyncAdminReview
    \/ SyncAdminHide

\* the loop reads through get_appointments and get_reviews only, which the
\* two backends implement alike: one backend is followed
InitSync == backend = "excel" /\ appts = <<>> /\ InitBot

SpecSync == InitSync /\ [][NextSync]_vars

\* ------------------------------ specification: the loop with failing sends
\* the reconciliation as above with reads that go through, where
\* send_message may raise for any of the users
SendPass ==
    /\ sync.ticks < MaxTicks
    /\ \E reach \in SUBSET Users : SyncTick(TRUE, TRUE, reach, TRUE, TRUE)

NextSend ==
    \/ SyncStart
    \/ SendPass
    \/ SyncAdminAdd
    \/ SyncAdminStatus
    \/ SyncAdminDelete
    \/ SyncAdminReview
    \/ SyncAdminHide

SpecSend == InitSync /\ [][NextSend]_vars

\* --------------------------- specification: the loop that never stops
\* the reconciliation of one user's rows with every failure a pass can
\* meet: the read, every send, the edit of the refresh.  The
\* passes are not counted here; the task is rescheduled after every
\* asyncio.sleep(2), hence the weak fairness of the pass.
LoopPass ==
    \E rdA, edited \in BOOLEAN, reach \in {{}, Users} :
        SyncTick(rdA, TRUE, reach, TRUE, edited)

LoopShow == show_my_appointments(101, TRUE, TRUE)

LoopAdminAdd ==
    /\ ~excel_sync_started
    /\ AdminAddRow(101, "D1", "09:00", "Ivanov", "Novaya", Len(appts))

NextLoop ==
    \/ SyncStart
    \/ LoopPass
    \/ LoopShow
    \/ LoopAdminAdd
    \/ SyncAdminStatus

SpecLoop == InitSync /\ [][NextLoop]_vars /\ WF_vars(LoopPass)

\* ------------------------------- specification: the moderation of reviews
\* a review text of 121 characters, one more than the preview holds
LongText ==
    "LLLLLLLLLLLLLLLLLLLLLLLLLLLLLLLLLLLLLLLLLLLLLLLLLLLLLLLLLLLLLLLLLLLLLLLLLLLLLLLLLLLLLLLLLLLLLLLLLLLLLLLLLLLLLLLLLLLLLLLLL"
\* a text of exactly 120 characters
FullText == SubSeq(LongText, 1, PreviewCap)

ReviewTexts == {"Great", FullText, LongText}

\* what the administrator writes into the status column to take a review out
ModeratedOut == {"Skryt", "HIDDEN", "Deleted"}

\* the reviews the loop starts from
ModAdminReview ==
    /\ ~excel_sync_started
    /\ \E u \in Users, rating \in Ratings, text \in ReviewTexts : AdminAddReview(u, rating, text)

ModAdminHide ==
    /\ excel_sync_started
    /\ \E i \in 1..MaxReviews, status \in ModeratedOut : AdminSetReviewStatus(i, status)

ModStart == StartSync(TRUE, TRUE)

ModPass ==
    /\ sync.ticks < MaxTicks
    /\ \E rdR \in BOOLEAN : SyncTick(TRUE, rdR, Users, TRUE, TRUE)

NextModeration ==
    \/ ModAdminReview
    \/ ModAdminHide
    \/ ModStart
    \/ ModPass

SpecModeration == InitSync /\ [][NextModeration]_vars

\* ------------------------------------------ specification: the dialog
\* one user is followed through the dialog; the other's bookings arrive as
\* the add_appointment call its enter_phone makes
Patient == 101
Other == 102

DialogDoctor ==
    \E spec \in Specializations, idx \in 1..2 : show_doctor_details(Patient, spec, idx)

DialogDate == \E rd \in BOOLEAN : show_available_times(Patient, "D1", rd)

DialogTime == \E t \in Times : start_appointment_form(Patient, t)

DialogName == enter_name(Patient, "Jane")

DialogPhone == \E wr \in BOOLEAN : enter_phone(Patient, "+100", wr)

DialogOther ==
    \E t \in Times : Call_add_appointment(Other, "D1", t, "John", "+200", "Ivanov", TRUE)

DialogAdminStatus == \E i \in 1..MaxRows : AdminSetStatus(i, "Canceled")

NextDialog ==
    \/ DialogDoctor
    \/ DialogDate
    \/ DialogTime
    \/ DialogName
    \/ DialogPhone
    \/ DialogOther
    \/ DialogAdminStatus

SpecDialog == Init /\ [][NextDialog]_vars

\* ------------------------------------ specification: the two conversations
\* one user goes through the booking and the review conversation, in any
\* interleaving, and may send /cancel
FlowDoctor == \E spec \in Specializations : show_doctor_details(Patient, spec, 1)

FlowDate == \E rd \in BOOLEAN : show_available_times(Patient, "D1", rd)

FlowTime == \E t \in Times : start_appointment_form(Patient, t)

TypedName == "Jane"
TypedPhone == "+100"

FlowName == enter_name(Patient, TypedName)

FlowPhone == \E wr \in BOOLEAN : enter_phone(Patient, TypedPhone, wr)

FlowReview == start_review(Patient)

FlowRating == \E rating \in Ratings : handle_rating(Patient, rating)

FlowReviewText == \E wr \in BOOLEAN : handle_review_text(Patient, "Great", wr)

FlowCancel == cancel(Patient)

NextFlow ==
    \/ FlowDoctor
    \/ FlowDate
    \/ FlowTime
    \/ FlowName
    \/ FlowPhone
    \/ FlowReview
    \/ FlowRating
    \/ FlowReviewText
    \/ FlowCancel

SpecFlow == Init /\ [][NextFlow]_vars

\* ------------------------------------ specification: the booking
\* one user books, again and again, while the clock runs
NextBooking ==
    \/ FlowDoctor
    \/ FlowDate
    \/ FlowTime
    \/ FlowName
    \/ FlowPhone
    \/ AdvanceClock

SpecBooking == Init /\ [][NextBooking]_vars

\* ------------------------------------ specification: the cancellation
\* the administrator enters rows of the followed user, with a date the bot
\* can parse or one it cannot
CancelAdminAdd ==
    \E date \in {"D1", BadDate} :
        AdminAddRow(Patient, date, "09:00", "Ivanov", "Novaya", Len(appts))

CancelShow == show_my_appointments(Patient, TRUE, TRUE)

CancelClick ==
    \E index \in 0..(MaxRows + 1), wr \in BOOLEAN :
        cancel_appointment_by_index(Patient, index, wr, TRUE, TRUE, TRUE, TRUE)

NextCancel ==
    \/ CancelAdminAdd
    \/ CancelShow
    \/ CancelClick
    \/ AdvanceClock

SpecCancel == Init /\ [][NextCancel]_vars

\* ----------------------------------------- specification: the listing
\* the followed user's rows, two days ahead, at one time after the other
ListingAdminAdd ==
    AdminAddRow(Patient, "D2", AVAILABLE_TIMES[(Len(appts) % Len(AVAILABLE_TIMES)) + 1],
                "Ivanov", "Novaya", Len(appts))

ListingAdminStatus == \E i \in 1..MaxRows : AdminSetStatus(i, "Canceled")

ListingShow == show_my_appointments(Patient, TRUE, TRUE)

ListingClick ==
    \E index \in 1..MaxRows, wr \in BOOLEAN :
        cancel_appointment_by_index(Patient, index, wr, TRUE, TRUE, TRUE, TRUE)

ListingPass ==
    /\ sync.ticks < MaxTicks
    /\ SyncTick(TRUE, TRUE, Users, TRUE, TRUE)

NextListing ==
    \/ ListingAdminAdd
    \/ ListingAdminStatus
    \/ ListingShow
    \/ ListingClick
    \/ ListingPass

SpecListing == Init /\ [][NextListing]_vars

\* ------------------------------------------ specification: the store
Doctors == {DOCTORS[s][i] : s \in Specializations, i \in {1}}

StoreAdd ==
    \E u \in Users, t \in Times, wr \in BOOLEAN :
        Call_add_appointment(u, "D1", t, "Jane", "+100", "Ivanov", wr)

StoreAdminAdd ==
    \E u \in Users, t \in Times, c \in 0..MaxNow :
        AdminAddRow(u, "D1", t, "Ivanov", "Novaya", c)

StoreAdminStatus ==
    \E i \in 1..MaxRows : AdminSetStatus(i, "Canceled")

NextStore ==
    \/ StoreAdd
    \/ StoreAdminAdd
    \/ StoreAdminStatus
    \/ AdvanceClock

SpecStore == Init /\ [][NextStore]_vars

\* -------------------------------- specification: deletion by identity key
DeleteCall ==
    \E u \in Users, d \in Dates, t \in Times, c \in 0..MaxNow, wr \in BOOLEAN :
        Call_delete_appointment(u, d, t, "Ivanov", c, wr)

DeleteAdminAdd ==
    \E u \in Users, c \in 0..MaxNow :
        AdminAddRow(u, "D1", "09:00", "Ivanov", "Novaya", c)

NextDelete ==
    \/ DeleteCall
    \/ DeleteAdminAdd

SpecDelete == Init /\ [][NextDelete]_vars

\* ------------------------------------------- specification: the startup
\* the names sheets_manager.py defines at module level
SheetsManagerNames == {"GoogleSheetsManager", "GOOGLE_SCOPES", "GOOGLE_AVAILABLE", "logger"}

\* try: from sheets_manager import <name> / except Exception: <name> = None
ImportFromSheetsManager(name) == IF name \in SheetsManagerNames THEN name ELSE NoValue

\* os.getenv('GOOGLE_SHEETS_ID'): unset, or the id of a spreadsheet
SheetsIds == {NoValue, "sheet-1"}

\* if SheetsManager is not None and os.getenv('GOOGLE_SHEETS_ID'): ... else: ...
StoreFor(sheets_id) ==
    IF ImportFromSheetsManager("SheetsManager") # NoValue /\ sheets_id # NoValue
    THEN "sheets"
    ELSE "excel"

Unstarted == "unstarted"

\* the module-level statements of bot.py, run once when the process starts
InitialiseStore(sheets_id) ==
    /\ backend = Unstarted
    /\ backend' = StoreFor(sheets_id)
    /\ last' = [Answer("initialise_store", 0, TRUE, NoRow, 0, 0)
                   EXCEPT !.input = sheets_id]
    /\ UNCHANGED <<available, workbook, appts, reviews, subscribers, now, dialogVars,
                   listingVars, syncVars>>

InitStartup ==
    /\ backend = Unstarted
    /\ appts = <<>>
    /\ InitBot

NextStartup ==
    \/ \E sheets_id \in SheetsIds : InitialiseStore(sheets_id)
    \/ backend \in Backends /\ StoreAdd
    \/ backend \in Backends /\ StoreAdminAdd
    \/ backend \in Backends /\ StoreAdminStatus
    \/ backend \in Backends /\ AdvanceClock

SpecStartup == InitStartup /\ [][NextStartup]_vars

\* ------------------------- specification: the store through an outage
\* The file is locked by another process, or the network is down, for a while:
\* every read and write a call makes while it lasts fails.
OutageBegins ==
    /\ available
    /\ available' = FALSE
    /\ UNCHANGED <<backend, workbook, appts, reviews, subscribers, now, dialogVars,
                   listingVars, syncVars, last>>

OutageEnds ==
    /\ ~available
    /\ available' = TRUE
    /\ UNCHANGED <<backend, workbook, appts, reviews, subscribers, now, dialogVars,
                   listingVars, syncVars, last>>

NextOutage ==
    \/ OutageBegins
    \/ OutageEnds
    \/ \E t \in Times :
           Call_add_appointment(Patient, "D1", t, "Jane", "+100", "Ivanov", available)
    \/ \E t \in Times :
           Call_delete_appointment(Patient, "D1", t, "Ivanov", 0, available)
    \/ Call_get_appointments(available)
    \/ \E u \in Users : Call_get_appointments_by_user(u, available)
    \/ Call_get_booked_times("Ivanov", "D1", available)
    \/ \E row_index \in 1..(MaxRows + 1) :
           Call_update_appointment_status(row_index, "Otmenena", available)
    \/ \E u \in Users : Call_add_subscriber(u, available, available)
    \/ start_review(Patient)
    \/ handle_rating(Patient, "5")
    \/ handle_review_text(Patient, "Great", available)

SpecOutage == Init /\ [][NextOutage]_vars

\* ------------------------------------ specification: the subscribers
\* Users press "subscribe" again and again while the file or the network
\* comes and goes; reviews are left in between, whose save writes the
\* whole workbook.
NextSubscribe ==
    \/ OutageBegins
    \/ OutageEnds
    \/ AdvanceClock
    \/ \E u \in Users : Call_add_subscriber(u, available, available)
    \/ start_review(Patient)
    \/ handle_rating(Patient, "5")
    \/ handle_review_text(Patient, "Great", available)

SpecSubscribe == Init /\ [][NextSubscribe]_vars

\* ------------------------------------- specification: the listing view
\* The patient opens the listing and goes back to the menu while the
\* administrator edits the sheet and the reconciliation loop runs.
NextView ==
    \/ ListingAdminAdd
    \/ ListingAdminStatus
    \/ \E rd \in BOOLEAN, edited \in BOOLEAN : show_my_appointments(Patient, rd, edited)
    \/ \E edited \in BOOLEAN : show_main_menu(Patient, edited)
    \/ \E rdV \in BOOLEAN, edited \in BOOLEAN :
           sync.ticks < MaxTicks /\ SyncTick(TRUE, TRUE, Users, rdV, edited)

SpecView == Init /\ [][NextView]_vars

\* ------------------------------------- specification: the date keyboard
\* A doctor's card is opened on any day of the first MaxDay days.
NextDates ==
    \/ \E u \in Users, today \in 0..MaxDay : show_doctor_dates(u, today)
    \/ AdvanceClock

SpecDates == Init /\ [][NextDates]_vars

\* --------------------------- specification: two users book side by side
\* Both users walk through the booking dialog, their steps interleaved in any
\* order; every read and write of the store goes through.
NextRace ==
    \/ \E u \in Users : show_doctor_details(u, "Terapevt", 1)
    \/ \E u \in Users : show_available_times(u, "D1", TRUE)
    \/ \E u \in Users, t \in Times : start_appointment_form(u, t)
    \/ \E u \in Users : enter_name(u, FullName(u))
    \/ \E u \in Users : enter_phone(u, TypedPhone, TRUE)

SpecRace == Init /\ [][NextRace]_vars

\* ------------------------- specification: booking while the loop runs
\* One patient books, and books again, while the clock advances and the
\* reconciliation loop makes its passes; nobody else writes to the table
\* and every read of a pass goes through.
NextRebook ==
    \/ FlowDoctor
    \/ FlowDate
    \/ FlowTime
    \/ FlowName
    \/ enter_phone(Patient, TypedPhone, TRUE)
    \/ AdvanceClock
    \/ sync.ticks < MaxTicks /\ SyncTick(TRUE, TRUE, Users, TRUE, TRUE)

SpecRebook == Init /\ [][NextRebook]_vars

\* ----------------------- specification: the user cancels, the loop runs
\* Rows are added for the patient, who lists and cancels them; rows leave
\* the table through the bot's cancel action only, and every read goes
\* through.
NextOwnCancel ==
    \/ ListingAdminAdd
    \/ ListingShow
    \/ \E index \in 1..MaxRows :
           cancel_appointment_by_index(Patient, index, TRUE, TRUE, TRUE, TRUE, TRUE)
    \/ ListingPass

SpecOwnCancel == Init /\ [][NextOwnCancel]_vars

\* ------------------------ specification: date and time buttons in any order
\* Another user holds 09:00 of day D2 before the patient starts.  The patient
\* presses doctor, date and time buttons and types name and phone in any
\* order the handlers accept; every read and write goes through.
NextOffer ==
    \/ /\ ~excel_sync_started
       /\ AdminAddRow(Other, "D2", "09:00", "Ivanov", "Novaya", 0)
    \/ FlowDoctor
    \/ \E d \in Dates : show_available_times(Patient, d, TRUE)
    \/ FlowTime
    \/ FlowName
    \/ enter_phone(Patient, TypedPhone, TRUE)

SpecOffer == Init /\ [][NextOffer]_vars

\* -------------------------- specification: two users cancel their own rows
\* Both users hold rows of the same doctor, date and time, created at the
\* same instant; each opens the own listing and presses cancel buttons of it.
NextOwner ==
    \/ \E u \in Users : AdminAddRow(u, "D2", "09:00", "Ivanov", "Novaya", 0)
    \/ \E u \in Users : show_my_appointments(u, TRUE, TRUE)
    \/ \E u \in Users, index \in 1..MaxRows, wr \in BOOLEAN :
           cancel_appointment_by_index(u, index, wr, TRUE, TRUE, TRUE, TRUE)

SpecOwner == Init /\ [][NextOwner]_vars

\* ------------------------------ specification: who creates the loop task
\* Both users send /start and press menu buttons, with create_task raising
\* or returning; the administrator enters rows and the loop makes its passes.
NextTasks ==
    \/ \E u \in Users, created, replied \in BOOLEAN : start(u, created, replied)
    \/ \E u \in Users, created, edited \in BOOLEAN : show_clinic_info(u, created, edited)
    \/ \E u \in Users : show_main_menu(u, TRUE)
    \/ \E u \in Users : AdminAddRow(u, "D1", "09:00", "Ivanov", "Novaya", 0)
    \/ sync.ticks < MaxTicks /\ SyncTick(TRUE, TRUE, Users, TRUE, TRUE)

SpecTasks == Init /\ [][NextTasks]_vars

\* ------------------------- specification: two users side by side
\* Each user is given a row two days ahead.  One user goes through the booking
\* dialog up to the name prompt and opens the own listing; the other books
\* a slot of tomorrow and opens and cancels in the own listing, in any
\* interleaving with the first.
NextIsolation ==
    \/ /\ ~excel_sync_started
       /\ AdminAddRow(IF appts = <<>> THEN Patient ELSE Other,
                      "D2", "09:00", "Ivanov", "Novaya", 0)
    \/ \E u \in Users : show_doctor_details(u, "Terapevt", 1)
    \/ \E u \in Users : show_available_times(u, "D1", TRUE)
    \/ \E u \in Users : start_appointment_form(u, "10:00")
    \/ enter_name(Patient, FullName(Patient))
    \/ enter_phone(Patient, TypedPhone, TRUE)
    \/ \E u \in Users : show_my_appointments(u, TRUE, TRUE)
    \/ cancel_appointment_by_index(Patient, 1, TRUE, TRUE, TRUE, TRUE, TRUE)

SpecIsolation == Init /\ [][NextIsolation]_vars

\* ================================================================ claims

\* C3 (slot exclusivity): the time of every appointment row whose status is
\* not a cancelled synonym is in findBookedTimes(doctor, date) of that row,
\* whatever other rows exist; and a time no non-cancelled row holds is not in
\* the result.
NotCancelledInStore(r) == Lower(r.status) \notin BookedStatusSynonyms

C3_SlotExclusivity ==
    /\ \A i \in DOMAIN appts :
          NotCancelledInStore(appts[i]) =>
              appts[i].time \in
                  get_booked_times(backend, appts, appts[i].doctor, appts[i].date, TRUE)
    /\ \A doc \in Doctors, d \in Dates :
          \A t \in get_booked_times(backend, appts, doc, d, TRUE) :
              \E i \in DOMAIN appts :
                  /\ DoctorSlot(appts[i]) = <<d, t, doc>>
                  /\ NotCancelledInStore(appts[i])

\* C5 (dedup idempotence): after N >= 1 appends that share one slot key, in
\* increasing createdAt order, a read of the table yields exactly one row
\* with that slot key, and it equals the record appended last.
C5_DedupIdempotence ==
    (last.op = "add_appointment" /\ last.run >= 1) =>
        LET read == get_appointments(appts, TRUE)
            same == {i \in DOMAIN read : SlotKey(read[i]) = SlotKey(last.row)}
        IN /\ Cardinality(same) = 1
           /\ \A i \in same : read[i] = last.row

\* C6: for every store state scanByUser(userId) returns at most one record
\* per slot key, the one with the latest createdAt.
C6_ScanOnePerSlotKey ==
    \A u \in Users :
        LET listing == get_appointments_by_user(backend, appts, u, TRUE)
        IN /\ \A i, j \in DOMAIN listing :
                 SlotKey(listing[i]) = SlotKey(listing[j]) => i = j
           /\ \A i \in DOMAIN listing : \A k \in DOMAIN appts :
                 SlotKey(appts[k]) = SlotKey(listing[i]) =>
                     appts[k].created_at <= listing[i].created_at

\* C7: deleteByIdentityKey removes only rows whose five fields all equal the
\* key and answers true iff a row was removed; with no matching row it
\* answers false and leaves the table as it was; every row that differs from
\* the key in a field is still there, unchanged and in its place.
C7_DeleteFrame ==
    [][(last'.op = "delete_appointment" /\ (last' # last \/ appts' # appts)) =>
        LET hit == {i \in DOMAIN appts :
                       IdentityKey(appts[i]) = IdentityKey(last'.row)}
            left == {i \in DOMAIN appts' :
                       IdentityKey(appts'[i]) # IdentityKey(last'.row)}
        IN /\ last'.ok <=> Len(appts') < Len(appts)
           /\ hit = {} => (~last'.ok /\ appts' = appts)
           /\ Filter(appts', left) = Filter(appts, DOMAIN appts \ hit)
           /\ Len(appts') <= Len(appts)
      ]_vars

\* a deletion that removed a row and left a row of the same slot key, created
\* at another time, in the table
C7_Witness ==
    /\ last.op = "delete_appointment"
    /\ last.ok
    /\ \E i \in DOMAIN appts :
          /\ SlotKey(appts[i]) = SlotKey(last.row)
          /\ appts[i].created_at # last.row.created_at

NoticesAbout(k) == {i \in DOMAIN sync.sent : sync.sent[i].about = k}

\* C1 (reconciliation detection): after a tick, every appointment key K that
\* was in the baseline and is absent from the active set the tick computed
\* has exactly one send_message call, addressed to K's user and naming K's
\* date, time and doctor; and a key the tick before found removed, still
\* absent, has none.
C1_ReconciliationDetection ==
    (last.op = "tick") =>
        /\ \A k \in sync.baseline \ sync.current :
              /\ Cardinality(NoticesAbout(k)) = 1
              /\ \A i \in NoticesAbout(k) :
                    /\ sync.sent[i].kind = "appointment"
                    /\ sync.sent[i].to = UidInt(k[1])
                    /\ sync.sent[i].date = k[2]
                    /\ sync.sent[i].time = k[3]
                    /\ sync.sent[i].doctor = k[4]
        /\ \A k \in sync.before \ sync.current : NoticesAbout(k) = {}

\* a tick that notifies a removed key while a key removed one tick earlier
\* stays absent and silent
C1_Witness ==
    /\ last.op = "tick"
    /\ \E k \in sync.baseline \ sync.current : Cardinality(NoticesAbout(k)) = 1
    /\ \E k \in sync.before \ sync.current : NoticesAbout(k) = {}

\* C2 (reconciliation quiescence): a tick that follows another tick with no
\* write to the store in between makes no send_message call.
C2_Quiescence ==
    (last.op = "tick" /\ sync.quiet) => sync.sent = <<>>

\* C4 (offered slots): when show_available_times has answered, the times it
\* offers are AVAILABLE_TIMES minus findBookedTimes(doctor, date) for the
\* doctor of the user's session, and no time held by a non-cancelled row of
\* that doctor and date is among them.
C4_OfferedSlots ==
    (last.op = "show_available_times") =>
        /\ offered[last.user] =
              Times \ get_booked_times(backend, appts, last.row.doctor,
                                       last.row.date, TRUE)
        /\ \A i \in DOMAIN appts :
              ( /\ NotCancelledInStore(appts[i])
                /\ appts[i].doctor = last.row.doctor
                /\ appts[i].date = last.row.date )
              => appts[i].time \notin offered[last.user]

\* a step in which cancel_appointment_by_index ran on a record of the cache
CancelStep ==
    /\ last'.op = "cancel_appointment_by_index"
    /\ last' # last \/ appts' # appts
    /\ last'.idx \in DOMAIN my_appts[last'.user]

CancelledRecord == my_appts[last'.user][last'.idx]

HasKeyOfCancelled(r) ==
    MatchesIdentity(r, last'.user, CancelledRecord.date, CancelledRecord.time,
                    CancelledRecord.doctor, CancelledRecord.created_at)

MoreThan24hAway(r) ==
    /\ ApptInstant(r.date, r.time) # NoInstant
    /\ ApptInstant(r.date, r.time) - now > CancelWindow

RejectedUnchanged ==
    /\ ~last'.ok
    /\ last'.alert \in {"Ne udalos proverit vremya zapisi",
                        "Otmenit mozhno tolko bolee chem za 24 chasa"}
    /\ appts' = appts

\* C8 (cancellation window), as the code has it: a cancel action on a cached
\* record more than 24 hours away asks the store to delete the rows with the
\* record's identity key; when the store does so, rows are removed, only
\* rows of that key, and the user is told the appointment is cancelled;
\* when it does not (the write fails, or no such row is left), the user is
\* told the cancellation failed and the store is unchanged.  A record 24
\* hours or less away, or with a date that cannot be parsed, is rejected
\* with a reason and the store is unchanged.
C8_CancellationWindow ==
    [][CancelStep =>
        IF MoreThan24hAway(CancelledRecord)
        THEN \/ /\ last'.ok
                /\ last'.alert = "Zapis otmenena"
                /\ Len(appts') < Len(appts)
                /\ Filter(appts, {i \in DOMAIN appts : ~HasKeyOfCancelled(appts[i])})
                     = Filter(appts', {i \in DOMAIN appts' : ~HasKeyOfCancelled(appts'[i])})
             \/ /\ ~last'.ok
                /\ last'.alert = "Oshibka pri otmene zapisi"
                /\ appts' = appts
        ELSE RejectedUnchanged
    ]_vars

\* C8 as the specification states it: the record more than 24 hours away is
\* deleted, so no row with its identity key is left in the store.
C8_CancellationWindow_AsStated ==
    [][CancelStep =>
        IF MoreThan24hAway(CancelledRecord)
        THEN \A i \in DOMAIN appts' : ~HasKeyOfCancelled(appts'[i])
        ELSE RejectedUnchanged
    ]_vars

\* a cancel action 25 hours ahead of the appointment has deleted the row
C8_Witness ==
    /\ last.op = "cancel_appointment_by_index"
    /\ last.ok
    /\ ApptInstant(last.row.date, last.row.time) - now > CancelWindow
    /\ \A i \in DOMAIN appts : IdentityKey(appts[i]) # IdentityKey(last.row)

\* C9 (cancelling a cancelled record): a cancel action on a cached record
\* whose status is a cancelled synonym is rejected with a reason and
\* deletes nothing, however far ahead the appointment is.
C9_CancelledNotCancellable ==
    [][(CancelStep /\ Lower(CancelledRecord.status) \in ActiveStatusSynonyms) =>
        /\ ~last'.ok
        /\ last'.alert # NoValue
        /\ appts' = appts
    ]_vars

\* C10 (what "cancel #i" resolves against): when the button "cancel #i" of
\* the listing on display is pressed and a record is deleted, that record is
\* the one the listing shows as item i.
C10_CancelResolvesAgainstDisplay ==
    [][( /\ CancelStep
         /\ last'.ok
         /\ shown[last'.user].kind = "listing"
         /\ last'.idx \in shown[last'.user].buttons ) =>
        IdentityKey(CancelledRecord) = IdentityKey(shown[last'.user].rows[last'.idx])
    ]_vars

\* ------------------------------------------------------------ booking dialog
\* C11: whenever the phone step of the booking dialog has run, the session of
\* that user is empty, whatever the session held and whether or not the row
\* was written.
C11_SessionClearedAtDone ==
    (last.op = "enter_phone") => user_data[last.user] = NoSession

\* C12: after the command /cancel the user who sent it has no booking
\* session and no rating left.
C12_CancelClearsSession ==
    (last.op = "cancel") =>
        /\ user_data[last.user] = NoSession
        /\ review[last.user].rating = NoValue

\* the session lacks a field the phone step reads
Incomplete(data) ==
    data # NoSession /\ (data.date = NoValue \/ data.time = NoValue \/ data.name = NoValue)

\* C13: a phone step taken with a session that lacks a required field, and
\* a review text step taken without a rating, append nothing to the store
\* and end without an exception leaving the handler.
C13_IncompleteStepIsNoOp ==
    [][\A u \in Users :
         /\ (last'.op = "enter_phone" /\ last'.user = u /\ Incomplete(user_data[u]))
                => (appts' = appts /\ last'.alert # "KeyError")
         /\ (last'.op = "handle_review_text" /\ last'.user = u
                /\ review[u].rating = NoValue)
                => (reviews' = reviews /\ last'.alert # "KeyError")]_vars

\* the phone step of user u, taken with a session that has every field
PhoneStepOfComplete(u) ==
    /\ last'.op = "enter_phone" /\ last'.user = u
    /\ now' = now
    /\ conv[u] = "ENTERING_PHONE"
    /\ user_data[u] # NoSession /\ ~Incomplete(user_data[u])

\* the row the claim names, from the session and the typed phone
BookedRow(u) ==
    Row(user_data[u].date, user_data[u].time, user_data[u].name, TypedPhone,
        user_data[u].doctor, user_data[u].specialization, "Novaya", UidStr(u), now)

\* the table afterwards ends with that row, which is the one row added
OneAppendOf(r) ==
    /\ appts' # <<>>
    /\ appts'[Len(appts')] = r
    /\ Len(appts') <= Len(appts) + 1
    /\ \A i \in 1..(Len(appts') - 1) : \E j \in DOMAIN appts : appts[j] = appts'[i]

\* the remote sheet already holds a row of this user for this slot
HoldsSlotOf(u) ==
    /\ backend = "sheets"
    /\ \E i \in DOMAIN appts :
           SlotKey(appts[i]) = <<UidStr(u), user_data[u].date, user_data[u].time,
                                 user_data[u].doctor>>

C15_SelectionIgnoredInForm ==
    [][\A u \in Users :
         (/\ conv[u] \in {"ENTERING_NAME", "ENTERING_PHONE"}
          /\ last'.op \in {"show_doctor_details", "show_available_times"}
          /\ last'.user = u)
         => /\ user_data'[u].doctor = user_data[u].doctor
            /\ user_data'[u].specialization = user_data[u].specialization
            /\ user_data'[u].date = user_data[u].date
            /\ user_data'[u].time = user_data[u].time]_vars

\* ------------------------------------------------------- reconciliation
\* the keys of the rows that are not cancelled, and of the reviews that are
\* not moderated out, as the table stands
ActiveKeysOf(rows) ==
    {IdentityKey(rows[i]) : i \in {j \in DOMAIN rows :
        Lower(rows[j].status) \notin ActiveStatusSynonyms}}

ActiveReviewKeysOf(rows) ==
    {<<rows[i].uid, rows[i].date, rows[i].rating, rows[i].text>> :
        i \in {j \in DOMAIN rows : Lower(rows[j].status) \notin HiddenStatusSynonyms}}

\* C16: the step that starts the reconciliation loop makes the active keys
\* it computed the baseline (the keys of the tables when both reads went
\* through, of an empty table for a read that failed) and sends no
\* notification.
C16_FirstRunSilent ==
    [][(~excel_sync_started /\ excel_sync_started') =>
         /\ sync'.sent = <<>>
         /\ known_active_appointment_keys' \in {{}, ActiveKeysOf(appts)}
         /\ known_active_review_keys' \in {{}, ActiveReviewKeysOf(reviews)}
         /\ last'.ok => /\ known_active_appointment_keys' = ActiveKeysOf(appts)
                        /\ known_active_review_keys' = ActiveReviewKeysOf(reviews)]_vars

C16_Witness ==
    /\ last.op = "start_sync" /\ last.ok
    /\ known_active_appointment_keys # {}
    /\ known_active_review_keys # {}
    /\ sync.sent = <<>>

\* C17: at the end of every tick the two baselines are the active keys that
\* tick computed, whether its sends went through or not, and a key whose
\* send failed in one tick is not notified in the next.
C17_BaselineReplacedDespiteFailedSend ==
    [][(last'.op = "tick" /\ sync'.ticks = sync.ticks + 1) =>
         /\ known_active_appointment_keys' = sync'.current
         /\ known_active_appointment_keys' \in {{}, ActiveKeysOf(appts)}
         /\ known_active_review_keys' \in {{}, ActiveReviewKeysOf(reviews)}
         /\ \A i \in DOMAIN sync.unsent : \A j \in DOMAIN sync'.sent :
                sync.unsent[i].kind = sync'.sent[j].kind
                    => sync.unsent[i].about # sync'.sent[j].about]_vars

C17_Witness ==
    /\ last.op = "tick"
    /\ sync.unsent # <<>>
    /\ sync.ticks >= 2
    /\ known_active_appointment_keys = sync.current
    /\ \A i \in DOMAIN sync.unsent :
           sync.unsent[i].kind = "appointment"
               => sync.unsent[i].about \notin known_active_appointment_keys

\* C18: once the reconciliation loop has started, whatever failed in a pass
\* (a read, a send, a refresh), another pass follows it.
C18_LoopNeverStops ==
    \A t \in {0, 1} : (excel_sync_started /\ sync.turn = t) ~> (sync.turn = 1 - t)

C18_Witness ==
    /\ last.op = "tick"
    /\ sync.ticks = MaxTicks
    /\ sync.unsent # <<>>
    /\ sync.alive

ReviewNoticesAbout(k) ==
    {i \in DOMAIN sync'.sent : sync'.sent[i].kind = "review" /\ sync'.sent[i].about = k}

\* C19: a tick that finds a review key of the baseline gone from the active
\* reviews (its status was set to a moderated-out synonym, in any case of
\* letters) makes exactly one send_message call for it, addressed to the
\* key's user and carrying the rating and the text (the first 120 characters
\* of a longer text); the key leaves the baseline, and a tick notifies no
\* review key that was not in the baseline.
C19_ReviewModeration ==
    [][(last'.op = "tick") =>
         /\ \A k \in known_active_review_keys \ ActiveReviewKeysOf(reviews) :
                /\ Cardinality(ReviewNoticesAbout(k)) = 1
                /\ \A i \in ReviewNoticesAbout(k) :
                      /\ sync'.sent[i].to = UidInt(k[1])
                      /\ sync'.sent[i].rating = k[3]
                      /\ IF Len(k[4]) <= PreviewCap
                         THEN sync'.sent[i].text = k[4]
                         ELSE SubSeq(sync'.sent[i].text, 1, PreviewCap)
                                  = SubSeq(k[4], 1, PreviewCap)
         /\ known_active_review_keys' \subseteq ActiveReviewKeysOf(reviews)
         /\ \A i \in DOMAIN sync'.sent :
                sync'.sent[i].kind = "review"
                    => sync'.sent[i].about \in known_active_review_keys]_vars

\* a tick has notified the author of a review that was hidden with an
\* upper-case synonym
C19_Witness ==
    /\ last.op = "tick"
    /\ \E i \in DOMAIN reviews :
          /\ reviews[i].status = "HIDDEN"
          /\ \E j \in DOMAIN sync.sent :
                /\ sync.sent[j].kind = "review"
                /\ sync.sent[j].to = UidInt(reviews[i].uid)
                /\ sync.sent[j].rating = reviews[i].rating
                /\ sync.sent[j].text = reviews[i].text

\* C20: a cancel button whose index is below 1 or above the length of the
\* user's cached snapshot (an empty one included) is answered with the
\* wrong-number alert, and the store and the cached snapshots stay as they
\* were.
C20_IndexOutOfRange ==
    [][\A u \in Users :
         (/\ last'.op = "cancel_appointment_by_index"
          /\ last'.user = u
          /\ now' = now
          /\ last'.idx \notin 1..Len(my_appts[u]))
         => /\ last'.alert = "Nevernyj nomer zapisi"
            /\ appts' = appts
            /\ my_appts' = my_appts
            /\ my_appts_cache' = my_appts_cache]_vars

\* a cancel button numbered past the end of a snapshot that has rows was
\* answered with the alert
C20_Witness ==
    /\ last.op = "cancel_appointment_by_index"
    /\ last.alert = "Nevernyj nomer zapisi"
    /\ my_appts[last.user] # <<>>
    /\ last.idx > Len(my_appts[last.user])
    /\ appts # <<>>

\* ------------------------------------------------------------ the listing
\* C21: the listing a user was just shown offers "cancel #i" exactly for the
\* items whose appointment is more than 24 hours ahead and whose status, in
\* lower case, is none of the five cancelled synonyms.
C21_ListingOffersByTheRule ==
    (last.op = "show_my_appointments" /\ last.ok) =>
        shown[last.user].buttons =
            {i \in DOMAIN shown[last.user].rows :
                /\ ApptInstant(shown[last.user].rows[i].date,
                               shown[last.user].rows[i].time) # NoInstant
                /\ ApptInstant(shown[last.user].rows[i].date,
                               shown[last.user].rows[i].time) - now > CancelWindow
                /\ Lower(shown[last.user].rows[i].status) \notin
                       {"otmenena", "otmenyon", "cancelled", "canceled", "cancel"}}

\* ------------------------------------------------------------ the reviews
\* C22: the text step of the review conversation leaves the user without a
\* rating and out of the conversation, whether the store took the review or
\* not.
C22_RatingClearedAtCompletion ==
    [][\A u \in Users :
         (last'.op = "handle_review_text" /\ last'.user = u
            /\ review[u].state = "REVIEW_TEXT")
         => review'[u] = NoReview]_vars

\* a review the store refused, written with a rating that is gone now
C22_Witness ==
    /\ last.op = "handle_review_text"
    /\ ~last.ok
    /\ reviews = <<>>
    /\ review[last.user] = NoReview

\* C23: while the backing store is unavailable, every read operation (all
\* appointments, a user's appointments, a doctor's booked times) returns an
\* empty result and every write operation (append, delete, status update,
\* subscriber insert, review insert) returns false, so none raises to the
\* caller.
C23_StoreFailureSemantics ==
    [][(~available /\ ~available') =>
         /\ last'.op \in {"get_appointments", "get_appointments_by_user"}
                => last'.returned = <<>>
         /\ last'.op = "get_booked_times" => last'.returned = {}
         /\ last'.op \in {"add_appointment", "delete_appointment",
                          "update_appointment_status", "add_subscriber",
                          "handle_review_text"}
                => last'.ok = FALSE]_vars

\* C24: at startup the store the bot uses is the remote-sheet backend when
\* GOOGLE_SHEETS_ID is present, and the local-file backend otherwise.
C24_BackendSelection ==
    last.op = "initialise_store" =>
        backend = (IF last.input # NoValue THEN "sheets" ELSE "excel")

\* C25: from the same table, the same call (append, delete by identity key,
\* a user's appointments, a doctor's booked times) gives the same result and
\* leaves the same logical rows on the local-file and the remote-sheet
\* backend, so that the two stay equal along every sequence of calls.
LogicalRows(rows) == {rows[i] : i \in DOMAIN rows}

C25_BackendsEquivalent ==
    \A u \in Users, t \in Times, c \in 0..MaxNow :
        /\ LogicalRows(Excel_add_appointment(appts, "D1", t, "Jane", "+100",
                                             "Ivanov", "Terapevt", u, now))
             = LogicalRows(Sheets_add_appointment(appts, "D1", t, "Jane", "+100",
                                                  "Ivanov", "Terapevt", u, now))
        /\ LogicalRows(Excel_delete_appointment(appts, u, "D1", t, "Ivanov", c))
             = LogicalRows(Sheets_delete_appointment(appts, u, "D1", t, "Ivanov", c))
        /\ LogicalRows(Excel_get_appointments_by_user(appts, u))
             = LogicalRows(Sheets_get_appointments_by_user(appts, u))
        /\ Excel_get_booked_times(appts, "Ivanov", "D1")
             = Sheets_get_booked_times(appts, "Ivanov", "D1")

\* C26: subscriber insertion is idempotent on userId.  The subscribers table
\* never holds two rows of one userId; an insert for a user the table already
\* holds leaves the table as it was; and while the store is available the
\* call answers true, for a new user as for one already subscribed.
C26_SubscriberIdempotent ==
    [][/\ \A i, j \in DOMAIN subscribers' :
            subscribers'[i].uid = subscribers'[j].uid => i = j
       /\ \A u \in Users :
            (last'.op = "add_subscriber" /\ last'.user = u /\ now' = now
                /\ available' = available)
            => /\ (\E i \in DOMAIN subscribers : subscribers[i].uid = UidStr(u))
                      => subscribers' = subscribers
               /\ available => last'.ok]_vars

C26_Witness ==
    /\ last.op = "add_subscriber"
    /\ last.ok
    /\ Len(subscribers) = 2
    /\ \E i \in DOMAIN subscribers :
          /\ subscribers[i].uid = last.row.uid
          /\ subscribers[i].at < last.row.created_at

\* C27: a user's entry in the view cache always refers to a message that
\* currently displays that user's listing, and a refresh made by the
\* reconciliation pass never overwrites a message that has since been changed
\* to something else, such as the main menu.
C27_ViewCacheConsistency ==
    [][\A u \in Users :
          /\ my_appts_view'[u] => shown'[u].kind = "listing"
          /\ (last'.op = "tick" /\ shown[u].kind # "listing")
                => shown'[u] = shown[u]]_vars

\* C28: completing a booking never deletes or alters an appointment row
\* whose slot key (userId, date, time, doctor) differs from the slot key of
\* the record being booked: every such row is in the table afterwards as
\* often as it was before.
CountOf(rows, r) == Cardinality({i \in DOMAIN rows : rows[i] = r})

C28_BookingFrame ==
    [][\A u \in Users :
         PhoneStepOfComplete(u) =>
             \A i \in DOMAIN appts :
                 SlotKey(appts[i]) # SlotKey(BookedRow(u))
                     => CountOf(appts', appts[i]) = CountOf(appts, appts[i])]_vars

\* C29: the dates offered for booking are exactly the Monday-to-Friday days
\* among the 14 days that follow today, in ascending order; today is never
\* offered and no Saturday or Sunday is.
C29_CandidateDates ==
    last.op = "show_doctor_dates" =>
        LET today == last.idx
            dates == last.returned
        IN /\ \A day \in (today + 1)..(today + 14) :
                  (day % 7 \in 0..4) <=> (\E i \in DOMAIN dates : dates[i] = day)
           /\ \A i \in DOMAIN dates :
                  /\ dates[i] \in (today + 1)..(today + 14)
                  /\ dates[i] # today
                  /\ dates[i] % 7 \notin {5, 6}
           /\ \A i, j \in DOMAIN dates : i < j => dates[i] < dates[j]

C29_Witness ==
    /\ last.op = "show_doctor_dates"
    /\ last.idx % 7 = 4
    /\ Len(last.returned) = 10
    /\ last.returned[1] = last.idx + 3

\* C30: the text preview in the notification about a removed review equals
\* the whole review text when that has at most 120 characters, and otherwise
\* its first 120 characters followed by one ellipsis marker.
C30_PreviewTruncation ==
    [][(last'.op = "tick") =>
         \A i \in DOMAIN sync'.sent :
             sync'.sent[i].kind = "review" =>
                 LET whole == sync'.sent[i].about[4]
                 IN sync'.sent[i].text =
                        (IF Len(whole) <= 120 THEN whole
                         ELSE SubSeq(whole, 1, 120) \o Ellipsis)]_vars

\* a tick has sent the cut preview of a review text of 121 characters
C30_Witness ==
    /\ last.op = "tick"
    /\ \E j \in DOMAIN sync.sent :
          /\ sync.sent[j].kind = "review"
          /\ Len(sync.sent[j].about[4]) = 121
          /\ Len(sync.sent[j].text) = 120 + Len(Ellipsis)
          /\ SubSeq(sync.sent[j].text, 121, 120 + Len(Ellipsis)) = Ellipsis

\* C31: whatever the interleaving of the booking dialogs of two different
\* users, the table never holds two rows of different users for the same
\* (doctor, date, time) that are both not cancelled.
C31_NoDoubleBooking ==
    \A i, j \in DOMAIN appts :
        (/\ appts[i].uid # appts[j].uid
         /\ DoctorSlot(appts[i]) = DoctorSlot(appts[j])
         /\ NotCancelledInStore(appts[i]))
        => ~NotCancelledInStore(appts[j])

\* C32: in the local-file backend, appending a review or a subscriber
\* leaves the rows of every other table as the file holds them: the
\* appointment rows are the same after the write as before it, a review
\* write leaves the subscribers and a subscriber write leaves the reviews.
C32_OtherTablesUntouched ==
    [][(backend = "excel" /\ available' = available) =>
         /\ last'.op \in {"handle_review_text", "add_subscriber"} => appts' = appts
         /\ last'.op = "handle_review_text" => subscribers' = subscribers
         /\ last'.op = "add_subscriber" => reviews' = reviews]_vars

\* C33: a removal notification names a key only when the key's record is no
\* longer an active record of the store (it was deleted, or its status is a
\* cancelled or moderated-out synonym); in particular a tick whose read of
\* the store failed notifies nobody about records that are still there.
C33_NoticeOnlyForRemoved ==
    (last.op = "tick") =>
        \A i \in DOMAIN sync.sent :
            /\ sync.sent[i].kind = "appointment"
                  => sync.sent[i].about \notin ActiveKeysOf(appts)
            /\ sync.sent[i].kind = "review"
                  => sync.sent[i].about \notin ActiveReviewKeysOf(reviews)

\* C34: a user who books a slot key (user, date, time, doctor) they already
\* hold is never sent an appointment-removed notification for it: no tick
\* notifies a key whose slot key is held by an active row of the table.
C34_RebookingIsSilent ==
    (last.op = "tick") =>
        \A i \in DOMAIN sync.sent :
            sync.sent[i].kind = "appointment" =>
                ~\E j \in DOMAIN appts :
                    /\ SlotKey(appts[j]) = <<sync.sent[i].about[1], sync.sent[i].about[2],
                                             sync.sent[i].about[3], sync.sent[i].about[4]>>
                    /\ Lower(appts[j].status) \notin ActiveStatusSynonyms

\* C35: an appointment the user removed with the bot's own cancel action is
\* never announced to the user as cancelled by administrators or deleted:
\* where rows leave the table through the cancel action only, no tick sends
\* an appointment-removed notification.
C35_OwnCancelIsSilent ==
    (last.op = "tick") =>
        \A i \in DOMAIN sync.sent : sync.sent[i].kind # "appointment"

\* C36: the time of every row the booking dialog appends was among the times
\* offered when the slots of that row's date were shown for its doctor: at
\* the phone step that writes the row, the session's time is a button of the
\* slot keyboard built when the session's date was set.
C36_BookedTimeWasOffered ==
    [][\A u \in Users :
         (PhoneStepOfComplete(u) /\ last'.ok) => user_data[u].time \in offered[u]]_vars

\* C37: a cancel action of user U removes only rows whose user id is U: every
\* row of another user is in the table after the action as often as before
\* it, whatever the listing snapshot holds and whichever index is pressed.
C37_CancelDeletesOwnRowsOnly ==
    [][(last'.op = "cancel_appointment_by_index") =>
         \A i \in DOMAIN appts :
             appts[i].uid # UidStr(last'.user) =>
                 CountOf(appts', appts[i]) = CountOf(appts, appts[i])]_vars

\* a cancel removed the user's row while the same slot of the other user,
\* created at the same instant, is still in the table
C37_Witness ==
    /\ last.op = "cancel_appointment_by_index"
    /\ last.ok
    /\ last.row.uid = UidStr(last.user)
    /\ \E i \in DOMAIN appts :
           /\ appts[i].uid # last.row.uid
           /\ appts[i].date = last.row.date
           /\ appts[i].time = last.row.time
           /\ appts[i].doctor = last.row.doctor
           /\ appts[i].created_at = last.row.created_at

\* C38: at most one reconciliation loop task exists, whatever /start commands
\* and button presses arrive from whichever users: the application never
\* holds two tasks, and it holds one exactly when the started flag is up, so
\* a task is created only while none was created before.
C38_AtMostOneLoopTask ==
    /\ tasks <= 1
    /\ excel_sync_started <=> tasks = 1

\* a /start that arrived after the loop had made a pass created no task
C38_Witness ==
    /\ last.op = "start"
    /\ last.returned = FALSE
    /\ sync.ticks >= 1
    /\ tasks = 1

\* C39: a dialog step, a listing render or a cancel action of user A leaves
\* what the bot keeps for a different user B as it was: B's booking session
\* and dialog state, B's listing snapshot, B's cached listing and B's view
\* entry.
C39_SessionIsolation ==
    [][\A a, b \in Users :
         (a # b /\ last'.user = a) =>
             /\ user_data'[b] = user_data[b]
             /\ conv'[b] = conv[b]
             /\ offered'[b] = offered[b]
             /\ my_appts'[b] = my_appts[b]
             /\ my_appts_cache'[b] = my_appts_cache[b]
             /\ my_appts_view'[b] = my_appts_view[b]]_vars

\* a user finished a booking while the other user was in the middle of the
\* dialog with an open listing, and the other user's entries are all there
C39_Witness ==
    /\ last.op = "enter_phone"
    /\ last.ok
    /\ \E b \in Users \ {last.user} :
           /\ user_data[b].time # NoValue
           /\ conv[b] = "ENTERING_NAME"
           /\ my_appts[b] # <<>>
           /\ my_appts_view[b]

====
